---- MODULE Spec2Model ----
(***************************************************************************)
(* Model of the arena shooter's simulation core (src/components/           *)
(* GameCanvas.tsx): the per-frame callback gameLoop, the start/cancel      *)
(* effect, the geometry helpers and the darkness mask.                     *)
(*                                                                         *)
(* Arithmetic.  World coordinates are whole pixels.  Wherever the source   *)
(* divides a vector by its length (Math.sqrt, atan2 followed by cos/sin)   *)
(* the model computes the real result truncated towards zero to a whole    *)
(* pixel (Along); it is exact whenever the real result is a whole number,  *)
(* which is the case on the axis-parallel and 3-4-5 directions the         *)
(* specifications draw their inputs from.                                  *)
(***************************************************************************)
EXTENDS Integers, Sequences, FiniteSets, TLC

VARIABLES
    gameState,               \* props.gameState
    requestRef,              \* requestRef.current: id of the latest frame request
    rafQueue,                \* frame callbacks the browser still holds
    nextRafId,               \* the id the next requestAnimationFrame returns
    player,                  \* playerRef.current
    enemies,                 \* enemiesRef.current
    bullets,                 \* bulletsRef.current
    particles,               \* particlesRef.current
    walls,                   \* wallsRef.current
    healthPacks,             \* healthPacksRef.current
    decorations,             \* decorationsRef.current
    scoreRef,                \* scoreRef.current
    lastSpawnTimeRef,
    lastHealthPackTimeRef,
    lastUpdateEmitRef,
    lastCactusDamageTimeRef,
    lastShotTimeRef,
    isMultiplayer,           \* props.isMultiplayer as captured by the loop's closure
    currentMap,              \* props.currentMap
    clock,                   \* timestamp handed to the latest frame callback
    frames,                  \* number of frame callbacks run so far
    shotsFired,              \* bullets created since the latest initGame
    ev,                      \* what the latest handler did (callbacks invoked, passes' results)
    probe,                   \* inputs and results of the pure-function specifications
    service                  \* the MultiplayerService singleton, its sockets and timers

gameVars ==
    <<gameState, requestRef, rafQueue, nextRafId, player, enemies, bullets,
      particles, walls, healthPacks, decorations, scoreRef, lastSpawnTimeRef,
      lastHealthPackTimeRef, lastUpdateEmitRef, lastCactusDamageTimeRef,
      lastShotTimeRef, isMultiplayer, currentMap, clock, frames, shotsFired, ev>>

vars ==
    <<gameVars, probe, service>>

----------------------------------------------------------------------------
(* Numbers *)

Max(a, b) ==
    IF a >= b THEN a ELSE b

Min(a, b) ==
    IF a <= b THEN a ELSE b

Abs(a) ==
    IF a >= 0 THEN a ELSE -a

Sgn(a) ==
    IF a > 0 THEN 1 ELSE IF a < 0 THEN -1 ELSE 0

RECURSIVE SqrtIter(_, _, _)
SqrtIter(n, lo, hi) ==
    IF lo >= hi THEN lo
    ELSE LET mid == (lo + hi + 1) \div 2
         IN  IF mid * mid <= n THEN SqrtIter(n, mid, hi) ELSE SqrtIter(n, lo, mid - 1)

\* floor of Math.sqrt(n)
ISqrt(n) ==
    SqrtIter(n, 0, Min(n, 46340))

\* (c / Math.sqrt(d2)) * len, truncated towards zero: the component c of a
\* vector of squared length d2, rescaled to length len.
Along(c, len, d2) ==
    Sgn(c) * Sgn(len) * ISqrt(((c * len) * (c * len)) \div d2)

DistSq(ax, ay, bx, by) ==
    (ax - bx) * (ax - bx) + (ay - by) * (ay - by)

----------------------------------------------------------------------------
(* Constants of the component *)

FIRE_RATE ==
    500

HEALTH_PACK_INTERVAL ==
    30000

PlayerRadius ==
    15

PlayerMaxHp ==
    100

StartAmmo ==
    120

BulletDamage ==
    20

BulletSpeed ==
    12

BulletRadius ==
    4

BulletOffset ==
    25

EnemyValue ==
    10

EnemyContactDamage ==
    10

CactusDamage ==
    2

CactusCooldown ==
    1000

CactusRadius ==
    15

PackRadius ==
    15

EmitInterval ==
    50

\* levelConfig: a configuration inside the ranges src/types.ts documents
EnemySpeed ==
    5

EnemySpawnRate ==
    2000

PlayerSpeed ==
    4

\* canvas.width = window.innerWidth, canvas.height = window.innerHeight
CanvasWidth ==
    70

CanvasHeight ==
    70

----------------------------------------------------------------------------
(* Geometry kernel *)

ClosestX(px, wall) ==
    Max(wall.x, Min(px, wall.x + wall.width))

ClosestY(py, wall) ==
    Max(wall.y, Min(py, wall.y + wall.height))

\* squared distance from a point to the closest point of the wall's rectangle
WallDistSq(px, py, wall) ==
    DistSq(px, py, ClosestX(px, wall), ClosestY(py, wall))

\* The push of resolveWallCollision: x += nx * overlap with nx = dx / distance
\* and overlap = radius - distance, that is x += dx * radius / distance - dx.
PushOut(c, radius, d2) ==
    Along(c, radius, d2) - c

resolveWallCollision(entity, wall) ==
    LET dx == entity.x - ClosestX(entity.x, wall)
        dy == entity.y - ClosestY(entity.y, wall)
        d2 == dx * dx + dy * dy
    IN  IF d2 < entity.radius * entity.radius /\ d2 > 0
        THEN [entity EXCEPT !.x = @ + PushOut(dx, entity.radius, d2),
                            !.y = @ + PushOut(dy, entity.radius, d2)]
        ELSE entity

\* wallsRef.current.forEach(wall => resolveWallCollision(entity, wall))
RECURSIVE ResolveWallsFrom(_, _, _)
ResolveWallsFrom(entity, ws, i) ==
    IF i > Len(ws) THEN entity
    ELSE LET pushed == resolveWallCollision(entity, ws[i])
         IN  IF pushed = entity THEN ResolveWallsFrom(entity, ws, i + 1)
             ELSE ResolveWallsFrom(pushed, ws, i + 1)

ResolveWalls(entity, ws) ==
    ResolveWallsFrom(entity, ws, 1)

\* resolveDecorationCollision: the entity after the push, and whether it collided
resolveDecorationCollision(entity, decor) ==
    LET dx == entity.x - decor.x
        dy == entity.y - decor.y
        d2 == dx * dx + dy * dy
        minRadius == entity.radius + decor.radius
    IN  IF d2 < minRadius * minRadius /\ d2 > 0
        THEN [ent |-> [entity EXCEPT !.x = @ + PushOut(dx, minRadius, d2),
                                     !.y = @ + PushOut(dy, minRadius, d2)],
              hit |-> TRUE]
        ELSE [ent |-> entity, hit |-> FALSE]

\* decorationsRef.current.forEach(...): the entity after all pushes, and whether
\* any colliding decoration was a cactus
RECURSIVE ResolveDecorationsFrom(_, _, _, _)
ResolveDecorationsFrom(entity, ds, i, hitCactus) ==
    IF i > Len(ds) THEN [ent |-> entity, hitCactus |-> hitCactus]
    ELSE LET r == resolveDecorationCollision(entity, ds[i])
         IN  IF r.hit
             THEN ResolveDecorationsFrom(r.ent, ds, i + 1,
                                         hitCactus \/ ds[i].type = "CACTUS")
             ELSE ResolveDecorationsFrom(entity, ds, i + 1, hitCactus)

ResolveDecorations(entity, ds) ==
    ResolveDecorationsFrom(entity, ds, 1, FALSE)

checkBulletWallCollision(bullet, wall) ==
    IF wall.isLow THEN FALSE
    ELSE WallDistSq(bullet.x, bullet.y, wall) < bullet.radius * bullet.radius

\* the point tests of spawnEnemy and spawnHealthPack
InsideWall(x, y, wall) ==
    x > wall.x /\ x < wall.x + wall.width /\ y > wall.y /\ y < wall.y + wall.height

InAnyWall(x, y, ws) ==
    \E i \in 1..Len(ws) : InsideWall(x, y, ws[i])

----------------------------------------------------------------------------
(* Map generators.  Math.random() draws are inputs: each generator takes the  *)
(* sequence of its draws that matter; a draw the loop rejects changes nothing, *)
(* so a sequence shorter than the loop's count stands for the run whose other  *)
(* draws are rejected ones.                                                    *)

\* add(x, y, w, h, isLow): walls.push({ id: `w-${walls.length}`, ... })
AddWall(ws, x, y, w, h, isLow) ==
    Append(ws, [id |-> Len(ws), x |-> x, y |-> y, width |-> w, height |-> h,
                isLow |-> isLow])

\* addWallWithGap of generateErindaleLayout (DOOR_SIZE = 220)
AddWallWithGap(ws, x, y, w, h, isVertical) ==
    IF isVertical
    THEN LET segmentH == (h - 220) \div 2
         IN  AddWall(AddWall(ws, x, y, w, segmentH, FALSE),
                     x, y + segmentH + 220, w, h - (segmentH + 220), FALSE)
    ELSE LET segmentW == (w - 220) \div 2
         IN  AddWall(AddWall(ws, x, y, segmentW, h, FALSE),
                     x + segmentW + 220, y, w - (segmentW + 220), h, FALSE)

\* boundaries, corner rooms, hallway spines and central ruins of Erindale Park
ErindaleSkeleton ==
    LET B == 1200
        T == 50
        C == 350
        w1 == AddWall(<<>>, -B, -B, B * 2, T, FALSE)
        w2 == AddWall(w1, -B, B - T, B * 2, T, FALSE)
        w3 == AddWall(w2, -B, -B, T, B * 2, FALSE)
        w4 == AddWall(w3, B - T, -B, T, B * 2, FALSE)
        nw1 == AddWallWithGap(w4, -C - T, -B, T, B - C, TRUE)
        nw2 == AddWallWithGap(nw1, -B, -C - T, B - C, T, FALSE)
        ne1 == AddWallWithGap(nw2, C, -B, T, B - C, TRUE)
        ne2 == AddWallWithGap(ne1, C, -C - T, B - C, T, FALSE)
        sw1 == AddWallWithGap(ne2, -C - T, C, T, B - C, TRUE)
        sw2 == AddWallWithGap(sw1, -B, C, B - C, T, FALSE)
        se1 == AddWallWithGap(sw2, C, C, T, B - C, TRUE)
        se2 == AddWallWithGap(se1, C, C, B - C, T, FALSE)
        s1 == AddWall(se2, -20, -600 - 225, 40, 450, FALSE)
        s2 == AddWall(s1, -20, 600 - 225, 40, 450, FALSE)
        s3 == AddWall(s2, -600 - 225, -20, 450, 40, FALSE)
        s4 == AddWall(s3, 600 - 225, -20, 450, 40, FALSE)
    IN  AddWall(s4, -70, -70, 140, 140, TRUE)

\* the overlap test of the random obstacles of generateErindaleLayout
ErindaleOverlap(x, y, ws) ==
    \E i \in 1..Len(ws) :
        /\ x < ws[i].x + ws[i].width + 80
        /\ x + 80 > ws[i].x - 80
        /\ y < ws[i].y + ws[i].height + 80
        /\ y + 80 > ws[i].y - 80

\* one turn of the obstacle loop; o = [x, y, isBush, w, h] are its draws
RECURSIVE ErindaleObstacles(_, _, _)
ErindaleObstacles(ws, draws, i) ==
    IF i > Len(draws) THEN ws
    ELSE LET o == draws[i]
         IN  IF o.x * o.x + o.y * o.y < 350 * 350 \/ ErindaleOverlap(o.x, o.y, ws)
             THEN ErindaleObstacles(ws, draws, i + 1)
             ELSE ErindaleObstacles(AddWall(ws, o.x, o.y, o.w, o.h, o.isBush), draws, i + 1)

generateErindaleLayout(draws) ==
    ErindaleObstacles(ErindaleSkeleton, draws, 1)

\* the eight unit directions i/8 of a turn, as (cos, sin) over a common length
Octant(i) ==
    <<  <<1, 0>>, <<1, 1>>, <<0, 1>>, <<-1, 1>>,
        <<-1, 0>>, <<-1, -1>>, <<0, -1>>, <<1, -1>>  >>[i + 1]

RECURSIVE WastelandPillars(_, _)
WastelandPillars(ws, i) ==
    IF i >= 8 THEN ws
    ELSE LET d == Octant(i)
             d2 == d[1] * d[1] + d[2] * d[2]
         IN  WastelandPillars(
                 AddWall(ws, Along(d[1], 300, d2) - 20, Along(d[2], 300, d2) - 20,
                         40, 40, TRUE),
                 i + 1)

\* boundaries, arena pillars, side buildings and gates of Wasteland
WastelandSkeleton ==
    LET W == 1600
        H == 2000
        T == 100
        w1 == AddWall(<<>>, -(W \div 2) - T, -(H \div 2) - T, W + T * 2, T, FALSE)
        w2 == AddWall(w1, -(W \div 2) - T, H \div 2, W + T * 2, T, FALSE)
        w3 == AddWall(w2, -(W \div 2) - T, -(H \div 2), T, H, FALSE)
        w4 == AddWall(w3, W \div 2, -(H \div 2), T, H, FALSE)
        p == WastelandPillars(w4, 0)
        b1 == AddWall(p, -300 - 250, -900, 250, 400, FALSE)
        b2 == AddWall(b1, -300 - 250, 500, 250, 400, FALSE)
        b3 == AddWall(b2, 300, -900, 250, 400, FALSE)
        b4 == AddWall(b3, 300, 500, 250, 400, FALSE)
        g1 == AddWall(b4, -150, -850, 300, 50, TRUE)
    IN  AddWall(g1, -150, 800, 300, 50, TRUE)

\* the crate loop; c = [x, y] are its draws
RECURSIVE WastelandCrates(_, _, _)
WastelandCrates(ws, draws, i) ==
    IF i > Len(draws) THEN ws
    ELSE LET c == draws[i]
             overlap == \E k \in 1..Len(ws) :
                            Abs(ws[k].x - c.x) < 50 /\ Abs(ws[k].y - c.y) < 50
         IN  IF (Abs(c.x) < 50 /\ Abs(c.y) < 50) \/ overlap
             THEN WastelandCrates(ws, draws, i + 1)
             ELSE WastelandCrates(AddWall(ws, c.x, c.y, 35, 35, FALSE), draws, i + 1)

generateWastelandLayout(draws) ==
    LET c == WastelandCrates(WastelandSkeleton, draws, 1)
        l1 == AddWall(c, -200, -400, 20, 200, FALSE)
        l2 == AddWall(l1, 200, 200, 20, 200, FALSE)
        l3 == AddWall(l2, -400, 100, 200, 20, FALSE)
    IN  AddWall(l3, 200, -300, 200, 20, FALSE)

\* generateCactuses; draws[i] = [x, y] is the position drawn in turn i - 1
RECURSIVE CactusesFrom(_, _, _)
CactusesFrom(ds, draws, i) ==
    IF i > Len(draws) THEN ds
    ELSE LET c == draws[i]
         IN  IF Abs(c.x) < 350 /\ Abs(c.y) < 350
             THEN CactusesFrom(ds, draws, i + 1)
             ELSE CactusesFrom(Append(ds, [id |-> i - 1, x |-> c.x, y |-> c.y,
                                           type |-> "CACTUS", radius |-> CactusRadius]),
                               draws, i + 1)

generateCactuses(draws) ==
    CactusesFrom(<<>>, draws, 1)

\* the box test of findSafeSpawnPosition (playerRadius = 20)
SpawnBoxHitsWall(x, y, ws) ==
    \E i \in 1..Len(ws) :
        /\ x + 20 > ws[i].x
        /\ x - 20 < ws[i].x + ws[i].width
        /\ y + 20 > ws[i].y
        /\ y - 20 < ws[i].y + ws[i].height

\* the sample of findSafeSpawnPosition for the pair r of Math.random() values,
\* in thousandths: x = (random * 2 - 1) * (mapW - PADDING), and y likewise
SpawnSample(mapName, r) ==
    LET mapW == IF mapName = "Wasteland" THEN 1600 \div 2 ELSE 1200
        mapH == IF mapName = "Wasteland" THEN 2000 \div 2 ELSE 1200
    IN  [x |-> ((2 * r[1] - 1000) * (mapW - 100)) \div 1000,
         y |-> ((2 * r[2] - 1000) * (mapH - 100)) \div 1000]

\* a plausible slip: the loop has no limit of attempts
RECURSIVE SafeSpawnUncapped(_, _, _)
SafeSpawnUncapped(ws, draws, i) ==
    IF i > Len(draws) THEN [x |-> 0, y |-> 0]
    ELSE IF SpawnBoxHitsWall(draws[i].x, draws[i].y, ws)
         THEN SafeSpawnUncapped(ws, draws, i + 1)
         ELSE [x |-> draws[i].x, y |-> draws[i].y]

\* findSafeSpawnPosition; draws are the samples in the order drawn (at most
\* MAX_ATTEMPTS = 50 are looked at; a shorter list stands for 50 samples that
\* repeat it); the origin when none of them is safe
RECURSIVE SafeSpawnFrom(_, _, _)
SafeSpawnFrom(ws, draws, i) ==
    IF i > Len(draws) \/ i > 50 THEN [x |-> 0, y |-> 0]
    ELSE IF SpawnBoxHitsWall(draws[i].x, draws[i].y, ws)
         THEN SafeSpawnFrom(ws, draws, i + 1)
         ELSE [x |-> draws[i].x, y |-> draws[i].y]

findSafeSpawnPosition(ws, draws) ==
    SafeSpawnFrom(ws, draws, 1)

----------------------------------------------------------------------------
(* The passes of gameLoop, in the order the frame runs them.  An entity is a  *)
(* record with its position flattened to x, y and its velocity to vx, vy.     *)
(* A particle keeps its id and life only: it never collides and nothing reads *)
(* its position.                                                              *)

Overlaps(a, b) ==
    DistSq(a.x, a.y, b.x, b.y) < (a.radius + b.radius) * (a.radius + b.radius)

\* 1. player movement, wall and decoration resolution, cactus damage
MoveX(keys) ==
    (IF "d" \in keys THEN 1 ELSE 0) - (IF "a" \in keys THEN 1 ELSE 0)

MoveY(keys) ==
    (IF "s" \in keys THEN 1 ELSE 0) - (IF "w" \in keys THEN 1 ELSE 0)

MovePlayer(p, keys, ws, ds) ==
    LET mx == MoveX(keys)
        my == MoveY(keys)
        len2 == mx * mx + my * my
        vx == IF len2 > 0 THEN Along(mx, p.speed, len2) ELSE 0
        vy == IF len2 > 0 THEN Along(my, p.speed, len2) ELSE 0
        moved == [p EXCEPT !.vx = vx, !.vy = vy, !.x = @ + vx, !.y = @ + vy]
    IN  ResolveDecorations(ResolveWalls(moved, ws), ds)

\* a plausible slip: the cooldown ends at 1000 ms, not after it
CactusDamagesAtCooldown(hitCactus, hp, time, lastCactus) ==
    hitCactus /\ hp > 0 /\ time - lastCactus >= CactusCooldown

\* whether the cactus brace of the frame subtracts hp
CactusDamages(hitCactus, hp, time, lastCactus) ==
    hitCactus /\ hp > 0 /\ time - lastCactus > CactusCooldown

PlayerStep(p, gs, keys, time, ws, ds, lastCactus) ==
    IF p.hp > 0 /\ gs = "PLAYING"
    THEN LET m == MovePlayer(p, keys, ws, ds)
             dmg == CactusDamages(m.hitCactus, m.ent.hp, time, lastCactus)
             hp == IF dmg THEN m.ent.hp - CactusDamage ELSE m.ent.hp
         IN  [player |-> [m.ent EXCEPT !.hp = hp],
              moved |-> TRUE,
              hitCactus |-> m.hitCactus,
              cactusDamage |-> dmg,
              lastCactus |-> IF dmg THEN time ELSE lastCactus,
              gameOver |-> IF dmg /\ hp <= 0 THEN <<"Cactus">> ELSE <<>>,
              setHealth |-> IF dmg THEN <<Max(0, hp)>> ELSE <<>>,
              particleCalls |-> IF dmg THEN <<3>> ELSE <<>>]
    ELSE [player |-> p, moved |-> FALSE, hitCactus |-> FALSE, cactusDamage |-> FALSE,
          lastCactus |-> lastCactus, gameOver |-> <<>>, setHealth |-> <<>>,
          particleCalls |-> <<>>]

\* 2. round end: the number of players alive, and whether onRoundEnd is invoked
AliveRemote(remotePlayers) ==
    Cardinality({i \in 1..Len(remotePlayers) : remotePlayers[i].hp > 0})

TotalAlive(remotePlayers, hp) ==
    AliveRemote(remotePlayers) + (IF hp > 0 THEN 1 ELSE 0)

\* a plausible slip: the guard on the number of known remote players is left out
RoundEndWithoutRemotes(remotePlayers, hasOnRoundEnd, gs, hp) ==
    /\ hasOnRoundEnd
    /\ gs \in {"PLAYING", "SPECTATING"}
    /\ TotalAlive(remotePlayers, hp) <= 1

RoundEndInvoked(remotePlayers, hasOnRoundEnd, gs, hp) ==
    /\ Len(remotePlayers) > 0
    /\ hasOnRoundEnd
    /\ gs \in {"PLAYING", "SPECTATING"}
    /\ TotalAlive(remotePlayers, hp) <= 1

\* 3. aim and shooting.  mouse is mouseRef.current minus the screen centre;
\* Math.cos(atan2(my, mx)) * len is Along(mx, len, mx^2 + my^2), and atan2(0, 0) = 0.
AimX(mouse, len) ==
    IF mouse.x = 0 /\ mouse.y = 0 THEN len
    ELSE Along(mouse.x, len, mouse.x * mouse.x + mouse.y * mouse.y)

AimY(mouse, len) ==
    IF mouse.x = 0 /\ mouse.y = 0 THEN 0
    ELSE Along(mouse.y, len, mouse.x * mouse.x + mouse.y * mouse.y)

\* a plausible slip: the fire-rate test is left out
CanShootAnyTime(p, gs, mouseDown, time, lastShot) ==
    /\ p.hp > 0
    /\ gs = "PLAYING"
    /\ mouseDown
    /\ p.ammo > 0

CanShoot(p, gs, mouseDown, time, lastShot) ==
    /\ p.hp > 0
    /\ gs = "PLAYING"
    /\ mouseDown
    /\ time - lastShot > FIRE_RATE
    /\ p.ammo > 0

NewBullet(p, mouse, time) ==
    [id |-> time,
     x |-> p.x + AimX(mouse, BulletOffset), y |-> p.y + AimY(mouse, BulletOffset),
     vx |-> AimX(mouse, BulletSpeed), vy |-> AimY(mouse, BulletSpeed),
     radius |-> BulletRadius, damage |-> BulletDamage]

ShootStep(p, bs, gs, mouseDown, mouse, time, lastShot) ==
    IF CanShoot(p, gs, mouseDown, time, lastShot)
    THEN [player |-> [p EXCEPT !.ammo = @ - 1],
          bullets |-> Append(bs, NewBullet(p, mouse, time)),
          lastShot |-> time, fired |-> 1]
    ELSE [player |-> p, bullets |-> bs, lastShot |-> lastShot, fired |-> 0]

\* 4. spawning.  rnd.dir is the direction of the drawn angle, rnd.radius the
\* drawn enemy radius (12..20), rnd.speedPct the drawn speed factor in percent
\* (80..120)
SpawnRadius ==
    Max(CanvasWidth, CanvasHeight) \div 2 + 100

\* a plausible slip: the two early returns of spawnEnemy are left out
SpawnAlways(hp, multi) ==
    TRUE

SpawnEnabled(hp, multi) ==
    ~(hp <= 0) /\ ~multi

spawnEnemy(now, cam, hp, multi, es, ws, lastSpawn, rnd) ==
    LET d2 == rnd.dir[1] * rnd.dir[1] + rnd.dir[2] * rnd.dir[2]
        x == cam.x + Along(rnd.dir[1], SpawnRadius, d2)
        y == cam.y + Along(rnd.dir[2], SpawnRadius, d2)
    IN  IF SpawnEnabled(hp, multi) /\ now - lastSpawn > EnemySpawnRate
           /\ ~InAnyWall(x, y, ws)
        THEN [enemies |-> Append(es, [id |-> now, x |-> x, y |-> y, vx |-> 0, vy |-> 0,
                                      radius |-> rnd.radius, hp |-> 1,
                                      speed |-> (EnemySpeed * rnd.speedPct) \div 100,
                                      value |-> EnemyValue]),
              lastSpawn |-> now, spawned |-> 1]
        ELSE [enemies |-> es, lastSpawn |-> lastSpawn, spawned |-> 0]

\* the first of the (at most 10) drawn positions that is in no wall, or 0
RECURSIVE FirstFree(_, _, _)
FirstFree(tries, ws, i) ==
    IF i > Len(tries) \/ i > 10 THEN 0
    ELSE IF InAnyWall(tries[i].x, tries[i].y, ws) THEN FirstFree(tries, ws, i + 1)
         ELSE i

spawnHealthPack(now, hps, ws, lastPack, tries) ==
    LET i == FirstFree(tries, ws, 1)
    IN  IF now - lastPack > HEALTH_PACK_INTERVAL /\ i > 0
        THEN [healthPacks |-> Append(hps, [id |-> now, x |-> tries[i].x, y |-> tries[i].y,
                                           radius |-> PackRadius]),
              lastPack |-> now]
        ELSE [healthPacks |-> hps, lastPack |-> lastPack]

\* the camera target: the player, or the spectated remote player
CameraPos(p, gs, targetId, remotePlayers) ==
    IF gs = "SPECTATING" /\ targetId # ""
       /\ \E i \in 1..Len(remotePlayers) : remotePlayers[i].id = targetId
    THEN LET i == CHOOSE k \in 1..Len(remotePlayers) :
                      /\ remotePlayers[k].id = targetId
                      /\ \A j \in 1..(k - 1) : remotePlayers[j].id # targetId
         IN  [x |-> remotePlayers[i].x, y |-> remotePlayers[i].y]
    ELSE [x |-> p.x, y |-> p.y]

\* a plausible slip: the viewport's diagonal in place of its longer side
DespawnDiagonal ==
    (ISqrt(CanvasWidth * CanvasWidth + CanvasHeight * CanvasHeight) * 3) \div 2

\* 5. bullets: integrate, then drop those touching a solid wall or too far away
DespawnDistance ==
    (Max(CanvasWidth, CanvasHeight) * 3) \div 2

HitsSolidWall(b, ws) ==
    \E i \in 1..Len(ws) : checkBulletWallCollision(b, ws[i])

BulletInRange(b, cam) ==
    DistSq(b.x, b.y, cam.x, cam.y) < DespawnDistance * DespawnDistance

MoveBullets(bs) ==
    [i \in 1..Len(bs) |-> [bs[i] EXCEPT !.x = @ + bs[i].vx, !.y = @ + bs[i].vy]]

BulletUpdate(bs, cam, ws) ==
    LET moved == MoveBullets(bs)
        keep(b) == ~HitsSolidWall(b, ws) /\ BulletInRange(b, cam)
    IN  [bullets |-> SelectSeq(moved, keep),
         cam |-> cam,
         particleCalls |-> [i \in 1..Len(SelectSeq(moved, LAMBDA b : HitsSolidWall(b, ws)))
                               |-> 3]]

\* 6. enemies: steer at the live player, move, resolve, then contact damage.
\* The pass runs the enemies in order; acc carries the player's hp through it.
SteerEnemy(e, p, ws, ds) ==
    LET dx == p.x - e.x
        dy == p.y - e.y
        d2 == dx * dx + dy * dy
        steer == p.hp > 0 /\ d2 > 0
        vx == IF steer THEN Along(dx, e.speed, d2) ELSE e.vx
        vy == IF steer THEN Along(dy, e.speed, d2) ELSE e.vy
        moved == [e EXCEPT !.vx = vx, !.vy = vy, !.x = @ + vx, !.y = @ + vy]
    IN  ResolveDecorations(ResolveWalls(moved, ws), ds).ent

\* a plausible slip: the guard on the player's hp is left out
EnemyTouchesAnyHp(e, p, hp) ==
    Overlaps(p, e)

\* whether the enemy (already moved) damages the player
EnemyTouches(e, p, hp) ==
    hp > 0 /\ Overlaps(p, e)

RECURSIVE EnemyPass(_, _, _, _, _)
EnemyPass(acc, p, ws, ds, i) ==
    IF i > Len(acc.enemies) \/ acc.threw THEN acc
    ELSE LET e == SteerEnemy(acc.enemies[i], [p EXCEPT !.hp = acc.hp], ws, ds)
             touch == EnemyTouches(e, p, acc.hp)
             hp == IF touch THEN acc.hp - EnemyContactDamage ELSE acc.hp
             next == IF touch /\ acc.audio = "throws"
                     THEN [acc EXCEPT !.enemies[i] = e, !.threw = TRUE]
                     ELSE
                     [enemies |-> [acc.enemies EXCEPT ![i] =
                                       IF touch THEN [e EXCEPT !.hp = 0] ELSE e],
                      audio |-> acc.audio,
                      threw |-> FALSE,
                      hp |-> hp,
                      contacts |-> IF touch THEN Append(acc.contacts, e.id)
                                   ELSE acc.contacts,
                      gameOver |-> IF touch /\ hp <= 0 THEN Append(acc.gameOver, "Enemies")
                                   ELSE acc.gameOver,
                      setHealth |-> IF touch THEN Append(acc.setHealth, Max(0, hp))
                                    ELSE acc.setHealth,
                      particleCalls |-> IF touch THEN Append(acc.particleCalls, 10)
                                        ELSE acc.particleCalls]
         IN  IF next = acc THEN EnemyPass(acc, p, ws, ds, i + 1)
             ELSE EnemyPass(next, p, ws, ds, i + 1)

\* audio: whether soundService.playPlayerDamage() returns ("ok") or throws; a
\* throw leaves the pass at the enemy whose contact called it (threw)
EnemyUpdate(es, p, ws, ds, audio) ==
    EnemyPass([enemies |-> es, audio |-> audio, threw |-> FALSE, hp |-> p.hp,
               contacts |-> <<>>, gameOver |-> <<>>,
               setHealth |-> <<>>, particleCalls |-> <<>>], p, ws, ds, 1)

\* 7. bullets against enemies: every (bullet, enemy) pair, bullets outermost.
\* hits lists, per overlapping pair, the damage applied and the hp it was applied to.
\* b.damage = 0: the damage a bullet is left with once it has touched an enemy
SpentDamage(b) ==
    0

RECURSIVE CombatPass(_, _)
CombatPass(acc, k) ==
    LET ne == Len(acc.enemies)
    IN  IF ne = 0 \/ k >= Len(acc.bullets) * ne \/ acc.threw THEN acc
        ELSE LET bi == (k \div ne) + 1
                 ei == (k % ne) + 1
                 b == acc.bullets[bi]
                 e == acc.enemies[ei]
                 hp == e.hp - b.damage
                 throws == hp <= 0 /\ acc.audio = "throws"
                 next == [bullets |-> [acc.bullets EXCEPT ![bi].damage = SpentDamage(b)],
                          enemies |-> [acc.enemies EXCEPT ![ei].hp = hp],
                          audio |-> acc.audio,
                          threw |-> throws,
                          score |-> IF hp <= 0 /\ ~throws THEN acc.score + e.value
                                    ELSE acc.score,
                          kills |-> IF hp <= 0 /\ ~throws THEN Append(acc.kills, e.id)
                                    ELSE acc.kills,
                          hits |-> Append(acc.hits, [bullet |-> b.id, enemy |-> e.id,
                                                     damage |-> b.damage, hpBefore |-> e.hp]),
                          particleCalls |-> IF hp <= 0 /\ ~throws
                                            THEN Append(acc.particleCalls, 8)
                                            ELSE acc.particleCalls]
             IN  IF Overlaps(b, e) /\ next # acc
                 THEN CombatPass(next, k + 1)
                 ELSE CombatPass(acc, k + 1)

\* audio: whether soundService.playEnemyDeath() returns or throws; a throw
\* leaves the pass at the pair whose kill called it (threw)
BulletEnemyCombat(bs, es, score, audio) ==
    CombatPass([bullets |-> bs, enemies |-> es, audio |-> audio, threw |-> FALSE,
                score |-> score, kills |-> <<>>,
                hits |-> <<>>, particleCalls |-> <<>>], 0)

\* a plausible slip: the pickup pass runs for a dead player as well
PackPickedAnyHp(p, hp, pack) ==
    Overlaps(p, pack)

\* 8. health packs: a live player is healed to maxHp by every pack it overlaps
PackPicked(p, hp, pack) ==
    hp > 0 /\ Overlaps(p, pack)

\* a plausible slip: the pack heals half of what is missing
HealHalf(p) ==
    (p.hp + p.maxHp) \div 2

HealTo(p) ==
    p.maxHp

HealthPackStep(p, hps) ==
    LET picked == {i \in 1..Len(hps) : PackPicked(p, p.hp, hps[i])}
    IN  [player |-> IF picked # {} THEN [p EXCEPT !.hp = HealTo(p)] ELSE p,
         healthPacks |-> SelectSeq(hps, LAMBDA h : ~PackPicked(p, p.hp, h)),
         picked |-> {hps[i].id : i \in picked},
         setHealth |-> [i \in 1..Cardinality(picked) |-> HealTo(p)],
         particleCalls |-> [i \in 1..Cardinality(picked) |-> 10]]

\* 9. cleanup
LiveBullet(b) ==
    b.damage > 0

LiveEnemy(e) ==
    e.hp > 0

\* a plausible slip: the bullet filter of the cleanup is left out
KeepBullets(bs) ==
    bs

CleanupBullets(bs) ==
    SelectSeq(bs, LiveBullet)

CleanupEnemies(es) ==
    SelectSeq(es, LiveEnemy)

\* createParticles(x, y, color, count) at Date.now() = stamp, once per entry of calls
RECURSIVE CreateParticles(_, _, _, _)
CreateParticles(ps, calls, stamp, i) ==
    IF i > Len(calls) THEN ps
    ELSE LET more == ps \o [k \in 1..calls[i] |-> [id |-> <<stamp, k - 1>>, life |-> 100]]
         IN  IF Len(more) = Len(ps) THEN CreateParticles(ps, calls, stamp, i + 1)
             ELSE CreateParticles(more, calls, stamp, i + 1)

\* life -= 0.02 (in hundredths), then the expired ones are dropped
UpdateParticles(ps) ==
    SelectSeq([i \in 1..Len(ps) |-> [ps[i] EXCEPT !.life = @ - 2]], LAMBDA q : q.life > 0)

----------------------------------------------------------------------------
(* gameLoop(time).  The input record `in` holds what the callback reads from  *)
(* its environment: time, surface (what canvasRef.current and getContext give),*)
(* keys, mouseDown, mouse (keysRef, isMouseDownRef, mouseRef), the props       *)
(* remotePlayers, hasOnRoundEnd, hasOnPlayerUpdate, spectatorTargetId, and the *)
(* Math.random() draws rnd (enemy) and packTries (health pack).                *)

\* the callback returns before the update: wrong game state, no canvas, no context
FrameSkipped(gs, surface) ==
    gs \notin {"PLAYING", "SPECTATING"} \/ surface # "ok"

EvNone ==
    [kind |-> "none"]

\* The frame's log and its results, from the results of its passes: s1 player
\* step, s3 shooting, s4 enemy spawn, s4h pack spawn, s5 bullet update, s6 enemy
\* update, s7 bullet-enemy combat, s8 pack pickup.
FrameEnd(in, s1, s3, s4, s4h, s5, s6, s7, s8) ==
    [player |-> s8.player,
     enemies |-> CleanupEnemies(s7.enemies),
     bullets |-> CleanupBullets(s7.bullets),
     healthPacks |-> s8.healthPacks,
     particles |-> UpdateParticles(CreateParticles(particles,
                       s1.particleCalls \o s5.particleCalls \o s6.particleCalls
                       \o s7.particleCalls \o s8.particleCalls, in.time, 1)),
     score |-> s7.score,
     lastSpawn |-> s4.lastSpawn,
     lastPack |-> s4h.lastPack,
     lastEmit |-> IF s1.moved /\ in.hasOnPlayerUpdate
                     /\ in.time - lastUpdateEmitRef > EmitInterval
                  THEN in.time ELSE lastUpdateEmitRef,
     lastCactus |-> s1.lastCactus,
     lastShot |-> s3.lastShot,
     fired |-> s3.fired,
     ev |-> [kind |-> "frame", ran |-> TRUE, time |-> in.time, surface |-> in.surface,
             gs |-> gameState,
             hpStart |-> player.hp,
             hitCactus |-> s1.hitCactus,
             cactusDamage |-> s1.cactusDamage,
             remotePlayers |-> in.remotePlayers,
             hpAtRoundCheck |-> s1.player.hp,
             roundEnd |-> RoundEndInvoked(in.remotePlayers, in.hasOnRoundEnd, gameState,
                                          s1.player.hp),
             roundEndBefore |-> (ev.kind = "frame" /\ ev.ran /\ ev.roundEnd),
             mouseDown |-> in.mouseDown,
             hpAtShoot |-> s1.player.hp,
             ammoBefore |-> s1.player.ammo,
             lastShotBefore |-> lastShotTimeRef,
             bulletsStart |-> bullets,
             bulletsShot |-> s3.bullets,
             fired |-> s3.fired,
             hpAtSpawn |-> s3.player.hp,
             lastSpawnBefore |-> lastSpawnTimeRef,
             enemiesStart |-> enemies,
             enemiesSpawned |-> s4.enemies,
             spawned |-> s4.spawned,
             contacts |-> s6.contacts,
             cameraPos |-> s5.cam,
             combatBullets |-> s5.bullets,
             combatEnemies |-> s6.enemies,
             afterCombatBullets |-> s7.bullets,
             afterCombatEnemies |-> s7.enemies,
             hits |-> s7.hits,
             kills |-> s7.kills,
             scoreBefore |-> scoreRef,
             hpAtPickup |-> s6.hp,
             pickupPacks |-> s4h.healthPacks,
             picked |-> s8.picked,
             gameOver |-> s1.gameOver \o s6.gameOver,
             setHealth |-> s1.setHealth \o s6.setHealth \o s8.setHealth]]

\* The sound call at which the frame ends when soundService throws (in.audio =
\* "throws": every call of the frame throws, so the first one reached ends it):
\* playPlayerDamage in the cactus brace, playShoot, playPlayerDamage at the
\* first enemy contact, playEnemyDeath at the first kill.  gameLoop catches
\* nothing, so the exception leaves the callback there.
ThrowSite(in, s1, s3, s6, s7) ==
    IF in.audio # "throws" THEN "none"
    ELSE IF s1.cactusDamage THEN "cactus"
    ELSE IF s3.fired = 1 THEN "shoot"
    ELSE IF s6.threw THEN "contact"
    ELSE IF s7.threw THEN "death"
    ELSE "none"

\* what the frame has written when the exception leaves it at `site`
FrameAborted(in, site, s1, s4, s4h, s5, s6, s7) ==
    LET early == site \in {"cactus", "shoot"}
    IN  [player |-> s1.player,
         enemies |-> IF early THEN enemies
                     ELSE IF site = "contact" THEN s6.enemies ELSE s7.enemies,
         bullets |-> IF early THEN bullets
                     ELSE IF site = "contact" THEN s5.bullets ELSE s7.bullets,
         healthPacks |-> IF early THEN healthPacks ELSE s4h.healthPacks,
         particles |-> IF early THEN particles
                       ELSE CreateParticles(particles, s5.particleCalls, in.time, 1),
         score |-> scoreRef,
         lastSpawn |-> IF early THEN lastSpawnTimeRef ELSE s4.lastSpawn,
         lastPack |-> IF early THEN lastHealthPackTimeRef ELSE s4h.lastPack,
         lastEmit |-> IF site # "cactus" /\ s1.moved /\ in.hasOnPlayerUpdate
                         /\ in.time - lastUpdateEmitRef > EmitInterval
                      THEN in.time ELSE lastUpdateEmitRef,
         lastCactus |-> lastCactusDamageTimeRef,
         lastShot |-> lastShotTimeRef,
         fired |-> 0,
         ev |-> [kind |-> "thrown", site |-> site, time |-> in.time, gs |-> gameState,
                 hpStart |-> player.hp, bulletsStart |-> bullets,
                 enemiesStart |-> enemies]]

\* what a skipped frame logs
EvSkipped(in) ==
    [kind |-> "frame", ran |-> FALSE, time |-> in.time, surface |-> in.surface,
     gs |-> gameState]

\* the frame callback with request id `id`
GameLoop(id, in) ==
    /\ id \in rafQueue
    /\ in.time > clock
    /\ clock' = in.time
    /\ frames' = frames + 1
    /\ UNCHANGED <<gameState, walls, decorations, isMultiplayer, currentMap, probe, service>>
    /\ IF FrameSkipped(gameState, in.surface)
       THEN /\ rafQueue' = rafQueue \ {id}
            /\ UNCHANGED <<requestRef, nextRafId>>
            /\ ev' = EvSkipped(in)
            /\ UNCHANGED <<player, enemies, bullets, particles, healthPacks, scoreRef,
                           lastSpawnTimeRef, lastHealthPackTimeRef, lastUpdateEmitRef,
                           lastCactusDamageTimeRef, lastShotTimeRef, shotsFired>>
       ELSE \E s1 \in {PlayerStep(player, gameState, in.keys, in.time, walls, decorations,
                                  lastCactusDamageTimeRef)} :
            \E s3 \in {ShootStep(s1.player, bullets, gameState, in.mouseDown, in.mouse,
                                 in.time, lastShotTimeRef)} :
            \E cam \in {CameraPos(s3.player, gameState, in.spectatorTargetId,
                                  in.remotePlayers)} :
            \E s4 \in {spawnEnemy(in.time, cam, s3.player.hp, isMultiplayer, enemies,
                                  walls, lastSpawnTimeRef, in.rnd)} :
            \E s4h \in {IF gameState = "PLAYING"
                        THEN spawnHealthPack(in.time, healthPacks, walls,
                                             lastHealthPackTimeRef, in.packTries)
                        ELSE [healthPacks |-> healthPacks,
                              lastPack |-> lastHealthPackTimeRef]} :
            \E s5 \in {BulletUpdate(s3.bullets, cam, walls)} :
            \E s6 \in {EnemyUpdate(s4.enemies, s3.player, walls, decorations, in.audio)} :
            \E s7 \in {BulletEnemyCombat(s5.bullets, s6.enemies, scoreRef, in.audio)} :
            \E s8 \in {HealthPackStep([s3.player EXCEPT !.hp = s6.hp], s4h.healthPacks)} :
            \E site \in {ThrowSite(in, s1, s3, s6, s7)} :
            \E r \in {IF site = "none"
                       THEN FrameEnd(in, s1, s3, s4, s4h, s5, s6, s7, s8)
                       ELSE FrameAborted(in, site, s1, s4, s4h, s5, s6, s7)} :
                /\ player' = r.player
                /\ enemies' = r.enemies
                /\ bullets' = r.bullets
                /\ healthPacks' = r.healthPacks
                /\ particles' = r.particles
                /\ scoreRef' = r.score
                /\ lastSpawnTimeRef' = r.lastSpawn
                /\ lastHealthPackTimeRef' = r.lastPack
                /\ lastUpdateEmitRef' = r.lastEmit
                /\ lastCactusDamageTimeRef' = r.lastCactus
                /\ lastShotTimeRef' = r.lastShot
                /\ shotsFired' = shotsFired + r.fired
                /\ ev' = r.ev
                /\ IF site = "none"
                   THEN /\ rafQueue' = (rafQueue \ {id}) \cup {nextRafId}
                        /\ requestRef' = nextRafId
                        /\ nextRafId' = nextRafId + 1
                   ELSE /\ rafQueue' = rafQueue \ {id}
                        /\ UNCHANGED <<requestRef, nextRafId>>

----------------------------------------------------------------------------
(* The start/cancel effect and initGame *)

\* a plausible slip: the magazine is filled to the hp maximum
PlayerWithShortMagazine(pos) ==
    [id |-> "player", x |-> pos.x, y |-> pos.y, vx |-> 0, vy |-> 0,
     radius |-> PlayerRadius, hp |-> PlayerMaxHp, maxHp |-> PlayerMaxHp,
     speed |-> PlayerSpeed, ammo |-> PlayerMaxHp]

NewPlayer(pos) ==
    [id |-> "player", x |-> pos.x, y |-> pos.y, vx |-> 0, vy |-> 0,
     radius |-> PlayerRadius, hp |-> PlayerMaxHp, maxHp |-> PlayerMaxHp,
     speed |-> PlayerSpeed, ammo |-> StartAmmo]

\* initGame(); g holds the draws of the generators: g.walls, g.cacti, g.spawn
InitGame(g) ==
    LET ws == IF currentMap = "Wasteland" THEN generateWastelandLayout(g.walls)
              ELSE generateErindaleLayout(g.walls)
    IN  /\ enemies' = <<>>
        /\ bullets' = <<>>
        /\ particles' = <<>>
        /\ healthPacks' = <<>>
        /\ walls' = ws
        /\ decorations' = IF currentMap = "Wasteland" THEN generateCactuses(g.cacti)
                          ELSE <<>>
        /\ player' = NewPlayer(findSafeSpawnPosition(ws, g.spawn))
        /\ lastHealthPackTimeRef' = 0
        /\ lastCactusDamageTimeRef' = 0
        /\ shotsFired' = 0

\* a plausible slip: the effect requests the frame without keeping its id
ForgottenRequest(ref, id) ==
    ref

\* requestRef.current = requestAnimationFrame(gameLoop), in the effect
StoredRequest(ref, id) ==
    id

\* a plausible slip: the effect has no cleanup
KeepPending(queue, ref) ==
    queue

\* the effect's cleanup: if (requestRef.current) cancelAnimationFrame(requestRef.current)
CancelPending(queue, ref) ==
    IF ref # 0 THEN queue \ {ref} ELSE queue

\* props.gameState changes to s: the cleanup of the previous effect runs, then
\* the effect; canvas tells whether canvasRef.current is set when initGame runs
ChangeGameState(s, canvas, g) ==
    /\ s # gameState
    /\ gameState' = s
    /\ UNCHANGED <<scoreRef, lastSpawnTimeRef, lastUpdateEmitRef, lastShotTimeRef,
                   isMultiplayer, currentMap, clock, frames, probe, service>>
    /\ ev' = [kind |-> "effect", to |-> s, from |-> gameState, initGame |-> (s = "PLAYING" /\ canvas)]
    /\ IF s = "PLAYING" /\ canvas
       THEN InitGame(g)
       ELSE UNCHANGED <<player, enemies, bullets, particles, walls, healthPacks,
                        decorations, lastHealthPackTimeRef, lastCactusDamageTimeRef,
                        shotsFired>>
    /\ IF s \in {"PLAYING", "SPECTATING"}
       THEN /\ rafQueue' = CancelPending(rafQueue, requestRef) \cup {nextRafId}
            /\ requestRef' = StoredRequest(requestRef, nextRafId)
            /\ nextRafId' = nextRafId + 1
       ELSE /\ rafQueue' = CancelPending(rafQueue, requestRef)
            /\ UNCHANGED <<requestRef, nextRafId>>


----------------------------------------------------------------------------
(* The darkness mask of the render half of gameLoop.  One path holds three    *)
(* subpaths: the outer rectangle, the flashlight polygon and the proximity    *)
(* circle; ctx.fill('evenodd') paints a point when the number of subpaths     *)
(* around it is odd.                                                          *)

\* a plausible slip: t >= 0, so that a segment through the ray's start counts
ParamsHitFromStart(tn, un, den) ==
    tn >= 0 /\ tn <= den /\ un >= 0 /\ un <= den

\* if (t > 0 && t <= 1 && u >= 0 && u <= 1), with t = tn / den, u = un / den, den > 0
ParamsHit(tn, un, den) ==
    tn > 0 /\ tn <= den /\ un >= 0 /\ un <= den

\* getIntersection: whether the ray and the segment cross (null otherwise), the
\* ray's parameter t = tn / den, the segment's parameter u = un / den (den > 0),
\* and the returned point (xn / den, yn / den) = (r_px + t * r_dx, r_py + t * r_dy)
getIntersection(rayStart, rayEnd, segmentStart, segmentEnd) ==
    LET r_dx == rayEnd.x - rayStart.x
        r_dy == rayEnd.y - rayStart.y
        s_dx == segmentEnd.x - segmentStart.x
        s_dy == segmentEnd.y - segmentStart.y
        denominator == r_dx * s_dy - r_dy * s_dx
        sg == Sgn(denominator)
        tn == sg * ((segmentStart.x - rayStart.x) * s_dy
                    - (segmentStart.y - rayStart.y) * s_dx)
        un == sg * ((segmentStart.x - rayStart.x) * r_dy
                    - (segmentStart.y - rayStart.y) * r_dx)
        den == sg * denominator
    IN  IF (r_dx = 0 /\ r_dy = 0) \/ (s_dx = 0 /\ s_dy = 0) \/ denominator = 0
        THEN [hit |-> FALSE, tn |-> 0, un |-> 0, den |-> 1, xn |-> 0, yn |-> 0]
        ELSE [hit |-> ParamsHit(tn, un, den),
              tn |-> tn, un |-> un, den |-> den,
              xn |-> rayStart.x * den + tn * r_dx,
              yn |-> rayStart.y * den + tn * r_dy]

\* the four edges of a wall, in the order the ray loop lists them
WallSegments(wall) ==
    <<  <<[x |-> wall.x, y |-> wall.y], [x |-> wall.x + wall.width, y |-> wall.y]>>,
        <<[x |-> wall.x + wall.width, y |-> wall.y],
          [x |-> wall.x + wall.width, y |-> wall.y + wall.height]>>,
        <<[x |-> wall.x + wall.width, y |-> wall.y + wall.height],
          [x |-> wall.x, y |-> wall.y + wall.height]>>,
        <<[x |-> wall.x, y |-> wall.y + wall.height], [x |-> wall.x, y |-> wall.y]>>  >>

\* The ray from the source through the point meets a solid wall before the
\* point: the polygon's vertex on that ray lies nearer than the point.
RayCutBefore(source, point, ws) ==
    \E i \in 1..Len(ws) :
        /\ ~ws[i].isLow
        /\ \E k \in 1..4 :
               LET seg == WallSegments(ws[i])[k]
                   hit == getIntersection(source, point, seg[1], seg[2])
               IN  hit.hit /\ hit.tn < hit.den

\* A. the outer rectangle: rect(-camX - 1000, -camY - 1000, width + 2000, height + 2000)
InMaskRect(source, point) ==
    /\ Abs(point.x - source.x) * 2 < CanvasWidth + 2000
    /\ Abs(point.y - source.y) * 2 < CanvasHeight + 2000

\* B. the flashlight polygon: within fov / 2 = 30 degrees of the aim (cos^2 > 3/4),
\* nearer than beamLength = 450 and nearer than the wall the ray meets.  aim is
\* the vector the light angle is taken from; atan2(0, 0) = 0 points along +x.
InFlashlight(source, aim, point, ws) ==
    LET ax == IF aim.x = 0 /\ aim.y = 0 THEN 1 ELSE aim.x
        ay == aim.y
        vx == point.x - source.x
        vy == point.y - source.y
        along == vx * ax + vy * ay
    IN  /\ along > 0
        /\ 4 * along * along > 3 * (vx * vx + vy * vy) * (ax * ax + ay * ay)
        /\ vx * vx + vy * vy < 450 * 450
        /\ ~RayCutBefore(source, point, ws)

\* C. the proximity circle: arc(x, y, 30, 0, 2 * PI)
InProximityCircle(source, point) ==
    DistSq(point.x, point.y, source.x, source.y) < 30 * 30

\* ctx.fill('evenodd') over the three subpaths
MaskFilled(source, aim, point, ws) ==
    ( (IF InMaskRect(source, point) THEN 1 ELSE 0)
      + (IF InFlashlight(source, aim, point, ws) THEN 1 ELSE 0)
      + (IF InProximityCircle(source, point) THEN 1 ELSE 0) ) % 2 = 1

----------------------------------------------------------------------------
(* MultiplayerService (src/services/multiplayerService.ts).  The record       *)
(* `service` holds the object's fields ws, isConnected, isMockMode and, of    *)
(* its environment, the sockets it has created (by creation number, with      *)
(* their readyState and the events the browser still owes them), the pending  *)
(* connect timeouts, the pending mock responses and what has been emitted to  *)
(* listeners and sent to the server.  connects counts the connect() calls and *)
(* requests lists the createRoom()/joinRoom() calls; every emitted event is   *)
(* tagged with the connect() call that precedes it and, for a mock response,  *)
(* with the number of its call.  last names the latest handler.               *)
(*                                                                            *)
(* A socket is CONNECTING, OPEN, FAILING (the browser owes it an error and a  *)
(* close event), CLOSING (it owes a close event) or CLOSED.  close() on a     *)
(* CONNECTING socket fails the connection, on an OPEN one starts the closing  *)
(* handshake.                                                                 *)

\* new MultiplayerService()
NewService ==
    [ws |-> 0, isConnected |-> FALSE, isMockMode |-> FALSE, sockets |-> <<>>,
     timers |-> 0, mockTimers |-> <<>>, emitted |-> <<>>, sent |-> <<>>,
     connects |-> 0, requests |-> <<>>, last |-> "new"]

\* an event as a listener sees it, with the tags conn and call
Event(s, type, mode, roomCode, isHost, theme, call) ==
    [type |-> type, mode |-> mode, roomCode |-> roomCode, isHost |-> isHost,
     theme |-> theme, conn |-> s.connects, call |-> call]

\* emit(type, payload)
Emit(s, e) ==
    [s EXCEPT !.emitted = Append(@, e)]

\* this.ws.close(); this.ws = null
CloseAndDrop(s) ==
    IF s.ws = 0 THEN s
    ELSE [s EXCEPT !.sockets[s.ws] = IF @ = "CONNECTING" THEN "FAILING"
                                     ELSE IF @ = "OPEN" THEN "CLOSING" ELSE @,
                   !.ws = 0]

\* a plausible slip: mock mode is entered without telling the listeners
enableMockModeSilently(s) ==
    IF s.isMockMode THEN s
    ELSE CloseAndDrop([s EXCEPT !.isMockMode = TRUE, !.isConnected = TRUE])

enableMockMode(s) ==
    IF s.isMockMode THEN s
    ELSE Emit(CloseAndDrop([s EXCEPT !.isMockMode = TRUE, !.isConnected = TRUE]),
              Event(s, "connected", "mock", "", FALSE, "", 0))

\* connect(url); throws: whether new WebSocket(url) throws
connect(s, throws) ==
    LET s1 == [CloseAndDrop(s) EXCEPT !.isMockMode = FALSE, !.isConnected = FALSE,
                                      !.connects = @ + 1]
        s2 == IF throws THEN enableMockMode(s1)
              ELSE [s1 EXCEPT !.sockets = Append(@, "CONNECTING"),
                              !.ws = Len(s1.sockets) + 1]
    IN  [s2 EXCEPT !.timers = @ + 1]

\* ws.onopen
onopen(s) ==
    Emit([s EXCEPT !.isConnected = TRUE], Event(s, "connected", "online", "", FALSE, "", 0))

\* ws.onclose
onclose(s) ==
    IF ~s.isMockMode
    THEN Emit([s EXCEPT !.isConnected = FALSE],
              Event(s, "disconnected", "", "", FALSE, "", 0))
    ELSE [s EXCEPT !.isConnected = FALSE]

\* ws.onerror
onerror(s) ==
    enableMockMode(s)

\* the test of the safety timeout
TimedOut(s) ==
    ~s.isConnected /\ ~s.isMockMode

\* the callback of the 1500 ms safety timeout
onTimeout(s) ==
    IF TimedOut(s) THEN enableMockMode(s) ELSE s

\* handleMockResponse(type, payload): the answer is due 300 ms later
handleMockResponse(s, type, payload) ==
    [s EXCEPT !.mockTimers = Append(@, [type |-> type, payload |-> payload])]

\* send(type, payload)
send(s, type, payload) ==
    IF s.ws # 0 /\ s.sockets[s.ws] = "OPEN"
    THEN [s EXCEPT !.sent = Append(@, [type |-> type, payload |-> payload])]
    ELSE IF s.isMockMode THEN handleMockResponse(s, type, payload)
         ELSE s

\* createRoom(roomCode, mapName)
createRoom(s, roomCode, mapName) ==
    LET s1 == [s EXCEPT !.requests = Append(@, [type |-> "CREATE_ROOM",
                                                roomCode |-> roomCode,
                                                mapName |-> mapName,
                                                mock |-> s.isMockMode])]
    IN  send(s1, "CREATE_ROOM",
             [roomCode |-> roomCode, mapName |-> mapName, call |-> Len(s1.requests)])

\* joinRoom(roomCode)
joinRoom(s, roomCode) ==
    LET s1 == [s EXCEPT !.requests = Append(@, [type |-> "JOIN_ROOM",
                                                roomCode |-> roomCode,
                                                mapName |-> "undefined",
                                                mock |-> s.isMockMode])]
    IN  send(s1, "JOIN_ROOM",
             [roomCode |-> roomCode, mapName |-> "undefined", call |-> Len(s1.requests)])

\* a plausible slip: the host's answer to CREATE_ROOM is given to a join as well
mockAnswerAsHost(s, m) ==
    LET p == m.payload
        joined == Emit(s, Event(s, "ROOM_JOINED", "",
                                IF p.roomCode = "" THEN "DEMO" ELSE p.roomCode,
                                TRUE, p.mapName, p.call))
    IN  IF p.mapName # "" /\ p.mapName # "undefined"
        THEN Emit(joined, Event(s, "GAME_STARTED", "", "", FALSE, p.mapName, p.call))
        ELSE joined

\* the callback of handleMockResponse's timeout for the request m
mockAnswer(s, m) ==
    LET p == m.payload
    IN  IF m.type = "CREATE_ROOM"
        THEN LET joined == Emit(s, Event(s, "ROOM_JOINED", "",
                                         IF p.roomCode = "" THEN "DEMO" ELSE p.roomCode,
                                         TRUE, p.mapName, p.call))
             IN  IF p.mapName # ""
                 THEN Emit(joined, Event(s, "GAME_STARTED", "", "", FALSE, p.mapName,
                                         p.call))
                 ELSE joined
        ELSE IF m.type = "JOIN_ROOM"
        THEN Emit(s, Event(s, "ROOM_JOINED", "", p.roomCode, FALSE, "undefined", p.call))
        ELSE s

----------------------------------------------------------------------------
(* generateLevelConfig (src/services/geminiService.ts).  A level config is    *)
(* kept by its fields themeName, enemySpawnRate and playerSpeed.  The call's  *)
(* environment is what process.env gives, whether new GoogleGenAI throws, how *)
(* the request settles and the text of its response; the result is the state  *)
(* of the returned promise and its value.                                     *)

DEFAULT_LEVEL_CONFIG ==
    [themeName |-> "Neon Basic", enemySpawnRate |-> EnemySpawnRate,
     playerSpeed |-> PlayerSpeed]

\* getApiKey(); env tells what the lookup of process.env.API_KEY meets
getApiKey(env) ==
    IF env = "key" THEN "secret" ELSE "undefined"

\* JSON.parse(text) for the response texts of the model: ok, or a SyntaxError
JsonParse(text) ==
    CASE text = "{\"themeName\":\"Lava\",\"enemySpawnRate\":1500,\"playerSpeed\":8}"
            -> [ok |-> TRUE,
                value |-> [themeName |-> "Lava", enemySpawnRate |-> 1500, playerSpeed |-> 8]]
      [] text = "{\"themeName\":\"Ice\"}"
            -> [ok |-> TRUE, value |-> [themeName |-> "Ice"]]
      [] text = "null"
            -> [ok |-> TRUE, value |-> "null"]
      [] OTHER
            -> [ok |-> FALSE, value |-> "SyntaxError"]

Fulfilled(value) ==
    [state |-> "fulfilled", value |-> value]

Thrown(error) ==
    [state |-> "thrown", value |-> error]

\* a plausible slip: the error is logged and thrown again
catchAndRethrow(r) ==
    IF r.state = "thrown" THEN [state |-> "rejected", value |-> r.value] ELSE r

\* catch (error) { console.error(...); return DEFAULT_LEVEL_CONFIG; }
catchError(r) ==
    IF r.state = "thrown" THEN Fulfilled(DEFAULT_LEVEL_CONFIG) ELSE r

\* the try block up to the await: new GoogleGenAI and the request being issued
beforeAwait(in) ==
    IF in.ctorThrows THEN Thrown("GoogleGenAI") ELSE [state |-> "pending", value |-> "request"]

\* the try block after the await
afterAwait(in) ==
    IF in.request = "rejects" THEN Thrown("request")
    ELSE IF in.text # ""
         THEN LET parsed == JsonParse(in.text)
              IN  IF parsed.ok THEN Fulfilled(parsed.value) ELSE Thrown(parsed.value)
         ELSE Thrown("Empty response from AI")

\* generateLevelConfig(prompt) up to its first suspension
generateLevelConfig(in) ==
    IF getApiKey(in.env) = "undefined" THEN Fulfilled(DEFAULT_LEVEL_CONFIG)
    ELSE catchError(beforeAwait(in))

\* generateLevelConfig resumed when the request has settled
generateLevelConfigResumed(in) ==
    catchError(afterAwait(in))

----------------------------------------------------------------------------
(* Specifications.  All of them start from the mounted component; they differ *)
(* in the inputs the environment feeds the handlers.                          *)

NoProbe ==
    [kind |-> "none"]

\* the component after its first render: refs at their useRef values
Mounted ==
    /\ service = NewService
    /\ gameState = "MENU"
    /\ requestRef = 0
    /\ rafQueue = {}
    /\ nextRafId = 1
    /\ player = NewPlayer([x |-> 0, y |-> 0])
    /\ enemies = <<>>
    /\ bullets = <<>>
    /\ particles = <<>>
    /\ walls = <<>>
    /\ healthPacks = <<>>
    /\ decorations = <<>>
    /\ scoreRef = 0
    /\ lastSpawnTimeRef = 0
    /\ lastHealthPackTimeRef = 0
    /\ lastUpdateEmitRef = 0
    /\ lastCactusDamageTimeRef = 0
    /\ lastShotTimeRef = 0
    /\ clock = 0
    /\ frames = 0
    /\ shotsFired = 0
    /\ ev = EvNone

Pt(x, y) ==
    [x |-> x, y |-> y]

Remote(id, x, y, hp) ==
    [id |-> id, x |-> x, y |-> y, hp |-> hp]

\* what one frame callback reads: the mouse is one pixel right of the screen
\* centre, the parent supplies onRoundEnd and onPlayerUpdate and spectates r1
Input(time, surface, keys, mouseDown, remote, rnd, packTries) ==
    [time |-> time, surface |-> surface, keys |-> keys, mouseDown |-> mouseDown,
     mouse |-> Pt(1, 0), remotePlayers |-> remote, hasOnRoundEnd |-> TRUE,
     hasOnPlayerUpdate |-> TRUE, spectatorTargetId |-> "r1", rnd |-> rnd,
     packTries |-> packTries, audio |-> "ok"]

\* the remote players the parent may know of in a multiplayer session
RemoteCases ==
    {<<>>,
     <<Remote("r1", 300, 0, 100)>>,
     <<Remote("r1", 300, 0, 0)>>,
     <<Remote("r1", 300, 0, 100), Remote("r2", 0, 300, 0)>>,
     <<Remote("r1", 300, 0, 100), Remote("r2", 0, 300, 100)>>}

RemotesKnown ==
    IF isMultiplayer THEN RemoteCases ELSE {<<>>}

\* draws of the generators: no random obstacle survives; the first spawn sample
\* lands in the central ruins of Erindale Park, the second is free
PlainDraws ==
    [walls |-> <<>>, cacti |-> <<>>, spawn |-> <<Pt(0, 0), Pt(200, 0)>>]

(* Spec: the life cycle.  The parent switches the game state at will, frames   *)
(* come 300 or 2100 ms apart and may find the canvas or its context missing.   *)

\* frames per behaviour of Spec
MaxFrames ==
    3

\* frame requests per behaviour of Spec
MaxRequests ==
    4

Init ==
    /\ Mounted
    /\ isMultiplayer \in BOOLEAN
    /\ currentMap = "Erindale Park"
    /\ probe = NoProbe

\* the parent re-renders with another game state
SetGameState ==
    \E s \in {"MENU", "PLAYING", "SPECTATING", "GAME_OVER"}, canvas \in BOOLEAN :
        /\ nextRafId <= MaxRequests
        /\ ChangeGameState(s, canvas, PlainDraws)

\* a frame callback fires
Frame ==
    \E id \in rafQueue,
       surface \in {"ok", "noCanvas", "noContext"},
       mouseDown \in BOOLEAN,
       dt \in {300, 2100},
       remote \in RemotesKnown :
        /\ frames < MaxFrames
        /\ GameLoop(id, Input(clock + dt, surface, {"d"}, mouseDown, remote,
                              [dir |-> <<1, 0>>, radius |-> 12, speedPct |-> 100],
                              <<Pt(260, 0)>>))

Next ==
    \/ SetGameState
    \/ Frame

Spec ==
    Init /\ [][Next]_vars

(* SpecSiege: one match on Wasteland, played to the end.  The player spawns    *)
(* touching a cactus.  Alone, it stands still while an enemy arrives from the  *)
(* west every other frame; in a multiplayer session it keeps walking into the  *)
(* cactus.  The mouse is held, frames come 1550 ms apart, and a health pack    *)
(* lands either on the player or at the origin.                                *)

\* frames per behaviour of SpecSiege
MaxSiegeFrames ==
    52

SiegeDraws ==
    [walls |-> <<>>, cacti |-> <<Pt(625, 0)>>, spawn |-> <<Pt(600, 0)>>]

InitSiege ==
    /\ Mounted
    /\ isMultiplayer \in BOOLEAN
    /\ currentMap = "Wasteland"
    /\ probe = NoProbe

StartSiege ==
    /\ gameState = "MENU"
    /\ ChangeGameState("PLAYING", TRUE, SiegeDraws)

SiegeFrame ==
    \E id \in rafQueue, remote \in RemotesKnown, pack \in {Pt(590, 0), Pt(0, 0)} :
        /\ frames < MaxSiegeFrames
        /\ GameLoop(id, Input(clock + 1550, "ok", IF isMultiplayer THEN {"d"} ELSE {},
                              TRUE, remote,
                              [dir |-> <<-1, 0>>, radius |-> 19, speedPct |-> 100],
                              <<pack>>))

NextSiege ==
    \/ StartSiege
    \/ SiegeFrame

SpecSiege ==
    InitSiege /\ [][NextSiege]_vars

(* SpecCombat: one match on Erindale Park, alone.  An enemy arrives from the   *)
(* east every frame (frames come 2100 ms apart); the player aims east and      *)
(* chooses every frame whether to hold the mouse.                              *)

\* frames per behaviour of SpecCombat
MaxCombatFrames ==
    8

InitCombat ==
    /\ Mounted
    /\ isMultiplayer = FALSE
    /\ currentMap = "Erindale Park"
    /\ probe = NoProbe

StartCombat ==
    /\ gameState = "MENU"
    /\ ChangeGameState("PLAYING", TRUE, PlainDraws)

CombatFrame ==
    \E id \in rafQueue, mouseDown \in BOOLEAN :
        /\ frames < MaxCombatFrames
        /\ GameLoop(id, Input(clock + 2100, "ok", {}, mouseDown, <<>>,
                              [dir |-> <<1, 0>>, radius |-> 19, speedPct |-> 100],
                              <<Pt(0, 300)>>))

NextCombat ==
    \/ StartCombat
    \/ CombatFrame

SpecCombat ==
    InitCombat /\ [][NextCombat]_vars

(* SpecRange: one match on Erindale Park in a multiplayer session (no enemies).*)
(* The player empties the magazine, one shot per frame 600 ms apart, down to   *)
(* WatchedAmmo rounds; from there frames come 300 or 600 ms apart and the      *)
(* mouse is held or not.                                                       *)

\* rounds left when SpecRange starts to vary its inputs
WatchedAmmo ==
    2

\* frames per behaviour of SpecRange
MaxRangeFrames ==
    124

InitRange ==
    /\ Mounted
    /\ isMultiplayer = TRUE
    /\ currentMap = "Erindale Park"
    /\ probe = NoProbe

StartRange ==
    /\ gameState = "MENU"
    /\ ChangeGameState("PLAYING", TRUE, PlainDraws)

RangeFrame ==
    \E id \in rafQueue,
       mouseDown \in (IF player.ammo > WatchedAmmo THEN {TRUE} ELSE BOOLEAN),
       dt \in (IF player.ammo > WatchedAmmo THEN {600} ELSE {300, 600}) :
        /\ frames < MaxRangeFrames
        /\ GameLoop(id, Input(clock + dt, "ok", {}, mouseDown,
                              <<Remote("r1", 300, 0, 100)>>,
                              [dir |-> <<1, 0>>, radius |-> 12, speedPct |-> 100],
                              <<Pt(0, 300)>>))

NextRange ==
    \/ StartRange
    \/ RangeFrame

SpecRange ==
    InitRange /\ [][NextRange]_vars

(* SpecTracer: one match on Erindale Park in a multiplayer session.  The       *)
(* player fires east once per frame (frames come 600 ms apart) until the       *)
(* parent switches to SPECTATING; from then on the camera follows the remote   *)
(* player r1, who stands a few pixels east of the local player.                *)

\* frames per behaviour of SpecTracer
MaxTracerFrames ==
    11

\* how far east of x = 200 the spectated player may stand
TracerReach ==
    11

InitTracer ==
    /\ Mounted
    /\ isMultiplayer = TRUE
    /\ currentMap = "Erindale Park"
    /\ probe = NoProbe

StartTracer ==
    /\ gameState = "MENU"
    /\ ChangeGameState("PLAYING", TRUE, PlainDraws)

Spectate ==
    /\ gameState = "PLAYING"
    /\ frames > 0
    /\ ChangeGameState("SPECTATING", TRUE, PlainDraws)

TracerFrame ==
    \E id \in rafQueue, east \in 0..TracerReach :
        /\ frames < MaxTracerFrames
        /\ gameState = "PLAYING" => east = 0
        /\ GameLoop(id, Input(clock + 600, "ok", {}, TRUE,
                              <<Remote("r1", 200 + east, 0, 100)>>,
                              [dir |-> <<1, 0>>, radius |-> 12, speedPct |-> 100],
                              <<Pt(0, 300)>>))

NextTracer ==
    \/ StartTracer
    \/ Spectate
    \/ TracerFrame

SpecTracer ==
    InitTracer /\ [][NextTracer]_vars

(* SpecAudio: one match, alone, in which the sound service may throw.  On      *)
(* Wasteland the player spawns touching a cactus and stands still; on          *)
(* Erindale Park an enemy arrives from the east every frame and the player     *)
(* chooses in each of the first frames whether to hold the mouse, then lets    *)
(* go.  Every frame either finds the audio working or finds every sound call   *)
(* throwing (no AudioContext).                                                 *)

\* frames per behaviour of SpecAudio
MaxAudioFrames ==
    22

\* frames of SpecAudio in which the mouse may be held
AudioShootFrames ==
    6

InitAudio ==
    /\ Mounted
    /\ isMultiplayer = FALSE
    /\ currentMap \in {"Erindale Park", "Wasteland"}
    /\ probe = NoProbe

StartAudio ==
    /\ gameState = "MENU"
    /\ ChangeGameState("PLAYING", TRUE,
                       IF currentMap = "Wasteland" THEN SiegeDraws ELSE PlainDraws)

AudioFrame ==
    \E id \in rafQueue, audio \in {"ok", "throws"},
       mouseDown \in (IF frames < AudioShootFrames THEN BOOLEAN ELSE {FALSE}) :
        /\ frames < MaxAudioFrames
        /\ GameLoop(id, [Input(clock + 2100, "ok", {}, mouseDown, <<>>,
                               [dir |-> <<1, 0>>, radius |-> 19, speedPct |-> 100],
                               <<Pt(0, 300)>>) EXCEPT !.audio = audio])

NextAudio ==
    \/ StartAudio
    \/ AudioFrame

SpecAudio ==
    InitAudio /\ [][NextAudio]_vars

(* SpecCactus: one match on Wasteland in a multiplayer session (no enemies).   *)
(* The player spawns touching a cactus and keeps walking into it.  The first   *)
(* frames come 500 or 501 ms apart, the later ones 1001 ms apart, until the    *)
(* cactus has worn the player down.                                            *)

\* frames per behaviour of SpecCactus
MaxCactusFrames ==
    60

\* frames of SpecCactus whose spacing varies
CactusVariedFrames ==
    8

InitCactus ==
    /\ Mounted
    /\ isMultiplayer = TRUE
    /\ currentMap = "Wasteland"
    /\ probe = NoProbe

StartCactus ==
    /\ gameState = "MENU"
    /\ ChangeGameState("PLAYING", TRUE, SiegeDraws)

CactusFrame ==
    \E id \in rafQueue,
       dt \in (IF frames < CactusVariedFrames THEN {500, 501} ELSE {1001}) :
        /\ frames < MaxCactusFrames
        /\ GameLoop(id, Input(clock + dt, "ok", {"d"}, FALSE,
                              <<Remote("r1", 300, 0, 100), Remote("r2", 0, 300, 100)>>,
                              [dir |-> <<-1, 0>>, radius |-> 19, speedPct |-> 100],
                              <<Pt(0, 0)>>))

NextCactus ==
    \/ StartCactus
    \/ CactusFrame

SpecCactus ==
    InitCactus /\ [][NextCactus]_vars

(* SpecRematch: SpecCombat's match on Erindale Park, which the parent may end  *)
(* (GAME_OVER) and start again at any time.                                    *)

\* frames per behaviour of SpecRematch
MaxRematchFrames ==
    8

\* frame requests per behaviour of SpecRematch
MaxRematchRequests ==
    10

InitRematch ==
    /\ Mounted
    /\ isMultiplayer = FALSE
    /\ currentMap = "Erindale Park"
    /\ probe = NoProbe

StartMatch ==
    /\ gameState \in {"MENU", "GAME_OVER"}
    /\ nextRafId <= MaxRematchRequests
    /\ ChangeGameState("PLAYING", TRUE, PlainDraws)

EndMatch ==
    /\ gameState = "PLAYING"
    /\ frames > 0
    /\ ChangeGameState("GAME_OVER", TRUE, PlainDraws)

RematchFrame ==
    \E id \in rafQueue, mouseDown \in BOOLEAN :
        /\ frames < MaxRematchFrames
        /\ GameLoop(id, Input(clock + 2100, "ok", {}, mouseDown, <<>>,
                              [dir |-> <<1, 0>>, radius |-> 19, speedPct |-> 100],
                              <<Pt(0, 300)>>))

NextRematch ==
    \/ StartMatch
    \/ EndMatch
    \/ RematchFrame

SpecRematch ==
    InitRematch /\ [][NextRematch]_vars

(* SpecSwarm: one match on Wasteland, alone, the mouse up.  The player spawns  *)
(* touching a cactus and stands still.  After the first frame, frames come    *)
(* 250 ms apart, so an enemy arrives from the west every ninth frame, at 0.8  *)
(* or 1.2 times the level's enemy speed: a fast enemy catches up with the     *)
(* slow one spawned before it and both reach the player in the same frame.    *)

\* frames per behaviour of SpecSwarm
MaxSwarmFrames ==
    108

InitSwarm ==
    /\ Mounted
    /\ isMultiplayer = FALSE
    /\ currentMap = "Wasteland"
    /\ probe = NoProbe

StartSwarm ==
    /\ gameState = "MENU"
    /\ ChangeGameState("PLAYING", TRUE, SiegeDraws)

SwarmFrame ==
    \E id \in rafQueue, speedPct \in {80, 120} :
        /\ frames < MaxSwarmFrames
        /\ GameLoop(id, Input(clock + (IF frames = 0 THEN 2100 ELSE 250), "ok", {},
                              FALSE, <<>>,
                              [dir |-> <<-1, 0>>, radius |-> 19, speedPct |-> speedPct],
                              <<Pt(0, 0)>>))

NextSwarm ==
    \/ StartSwarm
    \/ SwarmFrame

SpecSwarm ==
    InitSwarm /\ [][NextSwarm]_vars

(* SpecSpawn: initGame as a function of the map and of the draws of its        *)
(* generators: the scattered obstacles and one or two spawn samples.           *)

\* spawn samples, inside the sampling range of both maps
SpawnPoints ==
    {Pt(x, y) : x \in {-650, -300, 0, 50, 200, 600, 690},
                y \in {-840, -700, -10, 0, 50, 300}}

\* one sample, or a first sample at the origin followed by another
SpawnDraws ==
    {<<a>> : a \in SpawnPoints} \cup {<<Pt(0, 0), b>> : b \in SpawnPoints}

\* draws of the obstacle loop of the current map
ScatterDraws ==
    IF currentMap = "Wasteland"
    THEN {<<>>,
          <<Pt(400, 100), Pt(455, 100)>>,
          <<Pt(-450, -700), Pt(-430, -690)>>,
          <<Pt(0, -840), Pt(310, 15), Pt(30, 30)>>}
    ELSE {<<>>,
          <<[x |-> 100, y |-> 100, isBush |-> FALSE, w |-> 130, h |-> 130]>>,
          <<[x |-> 600, y |-> 200, isBush |-> FALSE, w |-> 130, h |-> 130],
            [x |-> 700, y |-> 300, isBush |-> TRUE, w |-> 120, h |-> 80]>>,
          <<[x |-> 180, y |-> -400, isBush |-> TRUE, w |-> 60, h |-> 40],
            [x |-> -240, y |-> 550, isBush |-> FALSE, w |-> 130, h |-> 80],
            [x |-> 950, y |-> 950, isBush |-> FALSE, w |-> 80, h |-> 80]>>}

InitSpawn ==
    /\ Mounted
    /\ isMultiplayer = FALSE
    /\ currentMap \in {"Erindale Park", "Wasteland"}
    /\ probe = NoProbe

StartSpawn ==
    \E scatter \in ScatterDraws, spawn \in SpawnDraws :
        /\ gameState = "MENU"
        /\ ChangeGameState("PLAYING", TRUE,
                           [walls |-> scatter, cacti |-> <<>>, spawn |-> spawn])

NextSpawn ==
    StartSpawn

SpecSpawn ==
    InitSpawn /\ [][NextSpawn]_vars

(* SpecService: the multiplayer service connecting.  The application calls    *)
(* connect() at will; a socket opens, errors or closes when the network says  *)
(* so; a timeout callback that is due runs eventually (weak fairness).        *)
(* SpecRooms: the application connects once and then calls createRoom() and   *)
(* joinRoom() at will; mock answers run in the order they were requested.     *)

\* connect() calls per behaviour of SpecService
MaxConnects ==
    2

\* createRoom() and joinRoom() calls per behaviour of SpecRooms
MaxRoomCalls ==
    2

InitService ==
    /\ Mounted
    /\ isMultiplayer = TRUE
    /\ currentMap = "Wasteland"
    /\ probe = NoProbe

Connect ==
    \E throws \in BOOLEAN :
        /\ service.connects < MaxConnects
        /\ service' = [connect(service, throws) EXCEPT
                           !.last = IF throws THEN "connectThrew" ELSE "connect"]
        /\ UNCHANGED <<gameVars, probe>>

\* the browser delivers the open event of socket k
SocketOpens ==
    \E k \in 1..Len(service.sockets) :
        /\ service.sockets[k] = "CONNECTING"
        /\ service' = [onopen([service EXCEPT !.sockets[k] = "OPEN"]) EXCEPT !.last = "open"]
        /\ UNCHANGED <<gameVars, probe>>

\* the browser delivers an error event to socket k; its close event follows
SocketErrors ==
    \E k \in 1..Len(service.sockets) :
        /\ service.sockets[k] \in {"CONNECTING", "OPEN", "FAILING"}
        /\ service' = [onerror([service EXCEPT !.sockets[k] = "CLOSING"]) EXCEPT
                           !.last = "error"]
        /\ UNCHANGED <<gameVars, probe>>

\* the browser delivers the close event of socket k
SocketCloses ==
    \E k \in 1..Len(service.sockets) :
        /\ service.sockets[k] \in {"OPEN", "CLOSING"}
        /\ service' = [onclose([service EXCEPT !.sockets[k] = "CLOSED"]) EXCEPT
                           !.last = "close"]
        /\ UNCHANGED <<gameVars, probe>>

\* a safety timeout of connect() runs
ConnectTimeout ==
    /\ service.timers > 0
    /\ service' = [onTimeout([service EXCEPT !.timers = @ - 1]) EXCEPT
                       !.last = IF TimedOut(service) THEN "timedOut" ELSE "timer"]
    /\ UNCHANGED <<gameVars, probe>>

CreateRoom ==
    \E roomCode \in {"", "AB12"}, mapName \in {"", "Wasteland"} :
        /\ Len(service.requests) < MaxRoomCalls
        /\ service' = [createRoom(service, roomCode, mapName) EXCEPT !.last = "createRoom"]
        /\ UNCHANGED <<gameVars, probe>>

JoinRoom ==
    /\ Len(service.requests) < MaxRoomCalls
    /\ service' = [joinRoom(service, "AB12") EXCEPT !.last = "joinRoom"]
    /\ UNCHANGED <<gameVars, probe>>

\* the oldest pending mock answer runs
MockTimeout ==
    /\ service.mockTimers # <<>>
    /\ service' = [mockAnswer([service EXCEPT !.mockTimers = Tail(@)],
                              Head(service.mockTimers)) EXCEPT !.last = "mockAnswer"]
    /\ UNCHANGED <<gameVars, probe>>

NextService ==
    \/ Connect
    \/ SocketOpens
    \/ SocketErrors
    \/ SocketCloses
    \/ ConnectTimeout

SpecService ==
    /\ InitService
    /\ [][NextService]_vars
    /\ WF_vars(ConnectTimeout)

\* the application's only connect() of SpecRooms
ConnectOnce ==
    \E throws \in BOOLEAN :
        /\ service.connects = 0
        /\ service' = [connect(service, throws) EXCEPT
                           !.last = IF throws THEN "connectThrew" ELSE "connect"]
        /\ UNCHANGED <<gameVars, probe>>

NextRooms ==
    \/ ConnectOnce
    \/ SocketOpens
    \/ SocketErrors
    \/ SocketCloses
    \/ ConnectTimeout
    \/ CreateRoom
    \/ JoinRoom
    \/ MockTimeout

SpecRooms ==
    /\ InitService
    /\ [][NextRooms]_vars
    /\ WF_vars(ConnectTimeout)
    /\ WF_vars(MockTimeout)

(* SpecConfig: one call of generateLevelConfig in every environment.          *)

ConfigEnvs ==
    {"noProcess", "noEnv", "noKey", "emptyKey", "key"}

ConfigTexts ==
    {"", "{", "Sorry, I cannot", "null", "{\"themeName\":\"Ice\"}",
     "{\"themeName\":\"Lava\",\"enemySpawnRate\":1500,\"playerSpeed\":8}"}

InitConfig ==
    /\ Mounted
    /\ isMultiplayer = FALSE
    /\ currentMap = "Erindale Park"
    /\ probe \in {[kind |-> "configInput", env |-> e, ctorThrows |-> c, request |-> r,
                    text |-> t] :
                      e \in ConfigEnvs, c \in BOOLEAN, r \in {"resolves", "rejects"},
                      t \in ConfigTexts}

\* the application calls generateLevelConfig(prompt)
CallGenerate ==
    /\ probe.kind = "configInput"
    /\ probe' = [kind |-> "config", in |-> probe, result |-> generateLevelConfig(probe)]
    /\ UNCHANGED <<gameVars, service>>

\* the request settles and the call resumes
RequestSettles ==
    /\ probe.kind = "config"
    /\ probe.result.state = "pending"
    /\ probe' = [probe EXCEPT !.result = generateLevelConfigResumed(probe.in)]
    /\ UNCHANGED <<gameVars, service>>

NextConfig ==
    \/ CallGenerate
    \/ RequestSettles

SpecConfig ==
    InitConfig /\ [][NextConfig]_vars

----------------------------------------------------------------------------
(* findSafeSpawnPosition on its own: the walls of either map (or none) and    *)
(* the Math.random() values of the loop, in thousandths.                      *)

\* the values Math.random() takes in SpecSearch
SearchRandoms ==
    {0, 100, 500, 999}

\* a pair of values whose sample lies in a wall of the map's skeleton
BlockedPair(mapName) ==
    IF mapName = "Wasteland" THEN <<100, 100>> ELSE <<500, 500>>

\* one sample, or 1, 49 or 50 blocked samples followed by another
SearchDraws(mapName) ==
    LET pairs == SearchRandoms \X SearchRandoms
        after(n) == {[i \in 1..(n + 1) |-> IF i <= n THEN BlockedPair(mapName) ELSE b] :
                        b \in pairs}
    IN  after(0) \cup after(1) \cup after(49) \cup after(50)

InitSearch ==
    /\ Mounted
    /\ isMultiplayer = FALSE
    /\ currentMap \in {"Erindale Park", "Wasteland"}
    /\ probe \in {[kind |-> "spawnInput", walled |-> w, randoms |-> r] :
                      w \in BOOLEAN, r \in SearchDraws(currentMap)}

\* const spawnPos = findSafeSpawnPosition(wallsRef.current, currentMap)
SearchSpawn ==
    /\ probe.kind = "spawnInput"
    /\ LET ws == IF ~probe.walled THEN <<>>
                 ELSE IF currentMap = "Wasteland" THEN generateWastelandLayout(<<>>)
                 ELSE generateErindaleLayout(<<>>)
           samples == [i \in 1..Len(probe.randoms) |->
                          SpawnSample(currentMap, probe.randoms[i])]
       IN  probe' = [kind |-> "spawn", walls |-> ws, samples |-> samples,
                     out |-> findSafeSpawnPosition(ws, samples)]
    /\ UNCHANGED <<gameVars, service>>

NextSearch ==
    SearchSpawn

SpecSearch ==
    InitSearch /\ [][NextSearch]_vars

----------------------------------------------------------------------------
(* getIntersection on its own: one ray and one segment with whole-number      *)
(* ends, as the ray loop passes them (the view source, the ray's end, a       *)
(* wall's corners).                                                           *)

\* how far from the origin the probed ends lie, in each axis
RayReach ==
    2

RayPoints ==
    {Pt(x, y) : x \in (0 - RayReach)..RayReach, y \in (0 - RayReach)..RayReach}

InitRay ==
    /\ Mounted
    /\ isMultiplayer = FALSE
    /\ currentMap = "Erindale Park"
    /\ probe \in {[kind |-> "rayInput", rayStart |-> a, rayEnd |-> b,
                    segmentStart |-> c, segmentEnd |-> d] :
                      a \in {Pt(0, 0), Pt(1, -1)}, b \in RayPoints,
                      c \in RayPoints, d \in RayPoints}

\* const intersection = getIntersection(viewSource.position, rayEnd, seg.s, seg.e)
CastRay ==
    /\ probe.kind = "rayInput"
    /\ probe' = [kind |-> "ray", in |-> probe,
                 out |-> getIntersection(probe.rayStart, probe.rayEnd,
                                         probe.segmentStart, probe.segmentEnd)]
    /\ UNCHANGED <<gameVars, service>>

NextRay ==
    CastRay

SpecRay ==
    InitRay /\ [][NextRay]_vars

(* SpecWall: the wall pass as a function.  The walls are the Wasteland layout  *)
(* with two crates 20 px apart; the probe is a circle of radius 15 or 19       *)
(* around them.                                                                *)

WallProbeWalls ==
    generateWastelandLayout(<<Pt(400, 100), Pt(455, 100)>>)

WallProbeXs ==
    {380 + 3 * i : i \in 0..43}

WallProbeYs ==
    {84, 92, 100, 117, 135, 143, 151}

InitWall ==
    /\ Mounted
    /\ isMultiplayer = FALSE
    /\ currentMap = "Wasteland"
    /\ probe \in {[kind |-> "wallInput", entity |-> [x |-> x, y |-> y, radius |-> r]] :
                      x \in WallProbeXs, y \in WallProbeYs, r \in {15, 19}}

\* wallsRef.current.forEach(wall => resolveWallCollision(entity, wall)), keeping
\* the entity as it is before the first wall and after each wall
ResolveProbe ==
    /\ probe.kind = "wallInput"
    /\ probe' = [kind |-> "walls",
                 walls |-> WallProbeWalls,
                 trace |-> [i \in 1..(Len(WallProbeWalls) + 1) |->
                               ResolveWalls(probe.entity, SubSeq(WallProbeWalls, 1, i - 1))]]
    /\ UNCHANGED <<gameVars, service>>

NextWall ==
    ResolveProbe

SpecWall ==
    InitWall /\ [][NextWall]_vars

(* SpecMask: the mask as a function.  The view source is a live player at the  *)
(* origin of Wasteland, with one crate east of it; the probe is the aim and a  *)
(* point of the world.                                                         *)

MaskProbeWalls ==
    generateWastelandLayout(<<Pt(200, -17)>>)

MaskProbeXs ==
    {-300, -100, -28, -20, -10, 0, 10, 20, 28, 40, 100, 190, 300, 440}

MaskProbeYs ==
    {-300, -100, -20, -10, 0, 10, 20, 100, 300}

MaskProbeAims ==
    {Pt(1, 0), Pt(0, 1), Pt(-1, 0), Pt(0, -1), Pt(1, 1), Pt(0, 0)}

InitMask ==
    /\ Mounted
    /\ isMultiplayer = FALSE
    /\ currentMap = "Wasteland"
    /\ probe \in {[kind |-> "maskInput", source |-> Pt(0, 0), aim |-> a, point |-> Pt(x, y)] :
                      a \in MaskProbeAims, x \in MaskProbeXs, y \in MaskProbeYs}
    /\ probe.point # probe.source

\* the mask pass for a live view source
DrawMask ==
    /\ probe.kind = "maskInput"
    /\ probe' = [kind |-> "mask", source |-> probe.source, aim |-> probe.aim,
                 point |-> probe.point,
                 inCone |-> InFlashlight(probe.source, probe.aim, probe.point,
                                         MaskProbeWalls),
                 inCircle |-> InProximityCircle(probe.source, probe.point),
                 filled |-> MaskFilled(probe.source, probe.aim, probe.point,
                                       MaskProbeWalls)]
    /\ UNCHANGED <<gameVars, service>>

NextMask ==
    DrawMask

SpecMask ==
    InitMask /\ [][NextMask]_vars

----------------------------------------------------------------------------
(* Properties *)

\* the latest handler was a frame callback that ran its update
FrameRan ==
    ev.kind = "frame" /\ ev.ran

\* C1: in every state that frames of a match reach (cactus damage, enemy
\* contact damage, health-pack pickups) the local player's hp satisfies
\* 0 <= hp <= maxHp.
C1_HpWithinBounds ==
    0 <= player.hp /\ player.hp <= player.maxHp

\* whole pixels a push may fall short of the real one (one per coordinate)
RoundingSlack ==
    2

\* the circle keeps at least its radius, up to rounding, from the wall
ClearOf(entity, wall) ==
    WallDistSq(entity.x, entity.y, wall)
        >= (entity.radius - RoundingSlack) * (entity.radius - RoundingSlack)

\* C2: once the wall pass has run over all walls, the distance from
\* the entity's centre to the closest point of every wall is at least the
\* entity's radius, for every starting position of the centre (on or inside a
\* rectangle included) and every order of adjacent walls.
C2_ClearOfEveryWallAfterPass ==
    probe.kind = "walls" =>
        \A i \in 1..Len(probe.walls) :
            ClearOf(probe.trace[Len(probe.trace)], probe.walls[i])

\* C3: with a live view source the even-odd fill paints exactly the points
\* outside both the flashlight cone and the proximity circle; a point inside
\* the cone and inside the circle is left visible.
C3_MaskShowsConeAndCircle ==
    probe.kind = "mask" =>
        (probe.filled <=> ~(probe.inCone \/ probe.inCircle))

\* C4: a frame callback that, in state PLAYING or SPECTATING, finds the canvas
\* or its 2D context unavailable changes no entity state and leaves a next
\* frame callback scheduled.
C4_SkippedFrameReschedules ==
    [][ (/\ ev'.kind = "frame"
         /\ ~ev'.ran
         /\ ev'.gs \in {"PLAYING", "SPECTATING"}
         /\ ev'.surface # "ok")
        => (/\ UNCHANGED <<player, enemies, bullets, particles, healthPacks, walls,
                           decorations, scoreRef>>
            /\ rafQueue' # {}) ]_vars

\* C5: a bullet's damage is its creation value 20 or 0, never increases, is 0
\* after the bullet-enemy pass of the frame in which the bullet touches an
\* enemy, and no bullet with damage 0 is in the store at the end of a frame.
C5_BulletDamage ==
    /\ \A i \in 1..Len(bullets) : bullets[i].damage = 20
    /\ FrameRan =>
           /\ Len(ev.afterCombatBullets) = Len(ev.combatBullets)
           /\ \A i \in 1..Len(ev.combatBullets) :
                  /\ ev.afterCombatBullets[i].id = ev.combatBullets[i].id
                  /\ ev.afterCombatBullets[i].damage \in {0, 20}
                  /\ ev.afterCombatBullets[i].damage <= ev.combatBullets[i].damage
                  /\ (\E j \in 1..Len(ev.combatEnemies) :
                          Overlaps(ev.combatBullets[i], ev.combatEnemies[j]))
                     => /\ ev.afterCombatBullets[i].damage = 0
                        /\ \A k \in 1..Len(bullets) :
                               bullets[k].id # ev.combatBullets[i].id

\* C5 witness: a bullet touched an enemy in the latest frame
C5_BulletTouchedEnemy ==
    /\ FrameRan
    /\ \E i \in 1..Len(ev.combatBullets), j \in 1..Len(ev.combatEnemies) :
           Overlaps(ev.combatBullets[i], ev.combatEnemies[j])

\* bullets the shooting step of the latest frame created
BulletsCreated ==
    Len(ev.bulletsShot) - Len(ev.bulletsStart)

\* C6: a frame creates a bullet only if hp > 0, the mouse is held, more than
\* 500 ms of frame time have passed since the previous shot and ammo > 0; a
\* created bullet takes exactly 1 from ammo, ammo is never below 0, and the
\* bullets fired in a match number 120 minus the current ammo.
C6_Shooting ==
    /\ player.ammo >= 0
    /\ shotsFired = 120 - player.ammo
    /\ FrameRan =>
           /\ BulletsCreated \in {0, 1}
           /\ player.ammo = ev.ammoBefore - BulletsCreated
           /\ BulletsCreated = 1 =>
                  /\ ev.hpAtShoot > 0
                  /\ ev.mouseDown
                  /\ ev.time - ev.lastShotBefore > 500
                  /\ ev.ammoBefore > 0

\* C6 witness: the last round has been fired and the mouse is held again
C6_MagazineEmptied ==
    /\ FrameRan
    /\ ev.ammoBefore = 0
    /\ ev.mouseDown
    /\ ev.time - ev.lastShotBefore > 500
    /\ shotsFired = 120

\* enemies a bullet of the latest frame's bullet-enemy pass brought to hp <= 0
EnemiesKilled ==
    {ev.kills[k] : k \in 1..Len(ev.kills)}

\* C7: in the bullet-enemy pass of a frame, a bullet lowers the hp of at most
\* one enemy and is consumed (gone after the cleanup) even on overkill; an
\* enemy with hp 1 hit by a bullet of damage 20 is gone after the cleanup and
\* the score has risen by the enemy's value: over the frame, by the value 10
\* of each enemy the pass killed.
C7_OneHitOneKillOneScore ==
    FrameRan =>
        /\ \A k \in 1..Len(ev.hits) :
               /\ \A m \in 1..Len(ev.hits) :
                      (ev.hits[m].bullet = ev.hits[k].bullet
                       /\ ev.hits[m].damage > 0 /\ ev.hits[k].damage > 0) => m = k
               /\ \A i \in 1..Len(bullets) : bullets[i].id # ev.hits[k].bullet
               /\ (ev.hits[k].hpBefore = 1 /\ ev.hits[k].damage = 20)
                  => /\ \A j \in 1..Len(enemies) : enemies[j].id # ev.hits[k].enemy
                     /\ ev.hits[k].enemy \in EnemiesKilled
        /\ scoreRef = ev.scoreBefore + 10 * Cardinality(EnemiesKilled)

\* players alive at the round-end check of the latest frame
AliveAtRoundCheck ==
    Cardinality({i \in 1..Len(ev.remotePlayers) : ev.remotePlayers[i].hp > 0})
        + (IF ev.hpAtRoundCheck > 0 THEN 1 ELSE 0)

\* C8: a frame that runs its update invokes onRoundEnd if and only if at least
\* one remote player is known and the remote players with hp > 0, plus the
\* local player if its hp > 0 at the check, number at most 1; never when no
\* remote player is known, and again in every consecutive frame in which the
\* condition holds (the test keeps no memory of earlier frames).
C8_RoundEndLevelTriggered ==
    FrameRan =>
        (ev.roundEnd <=> (Len(ev.remotePlayers) > 0 /\ AliveAtRoundCheck <= 1))

\* C8 witness: two consecutive frames invoked onRoundEnd, the local player dead
C8_RoundEndTwiceInARow ==
    /\ FrameRan
    /\ ev.roundEnd
    /\ ev.roundEndBefore
    /\ ev.hpAtRoundCheck <= 0

\* enemies the spawner of the latest frame added
EnemiesAdded ==
    Len(ev.enemiesSpawned) - Len(ev.enemiesStart)

\* C9: no frame adds an enemy while the local player's hp <= 0 or the session
\* is multiplayer; a frame adds at most one enemy, and only more than
\* enemySpawnRate ms after the previous spawn.
C9_SpawnGuards ==
    FrameRan =>
        /\ EnemiesAdded \in {0, 1}
        /\ EnemiesAdded = 1 =>
               /\ ev.hpStart > 0
               /\ ev.hpAtSpawn > 0
               /\ ~isMultiplayer
               /\ ev.time - ev.lastSpawnBefore > 2000
               /\ lastSpawnTimeRef = ev.time
        /\ EnemiesAdded = 0 => lastSpawnTimeRef = ev.lastSpawnBefore

\* C9 witness: an enemy was added in a frame after an earlier spawn
C9_SecondSpawn ==
    /\ FrameRan
    /\ EnemiesAdded = 1
    /\ ev.lastSpawnBefore > 0

\* packs the player overlaps at the pickup step of the latest frame
PacksTouched ==
    {i \in 1..Len(ev.pickupPacks) : Overlaps(player, ev.pickupPacks[i])}

\* C10: a live player (hp > 0) overlapping a health pack has hp = maxHp after
\* the frame and the pack is gone from the store; a player with hp <= 0 picks
\* up nothing; no pickup leaves hp strictly between its old value and maxHp.
C10_PackHealsToMax ==
    FrameRan =>
        /\ (ev.hpAtPickup > 0 /\ PacksTouched # {})
           => /\ player.hp = player.maxHp
              /\ \A i \in PacksTouched : \A j \in 1..Len(healthPacks) :
                     healthPacks[j].id # ev.pickupPacks[i].id
        /\ ev.hpAtPickup <= 0
           => /\ player.hp = ev.hpAtPickup
              /\ healthPacks = ev.pickupPacks
        /\ player.hp \in {ev.hpAtPickup, player.maxHp}

\* C10 witness: a wounded live player picked up a pack
C10_WoundedPlayerHealed ==
    /\ FrameRan
    /\ ev.hpAtPickup > 0
    /\ ev.hpAtPickup < player.maxHp
    /\ PacksTouched # {}

\* ids of the enemies that damaged the player in the latest frame's enemy pass
ContactIds ==
    {ev.contacts[k] : k \in 1..Len(ev.contacts)}

\* the onGameOver("Enemies") calls of the latest frame
EnemyGameOvers ==
    SelectSeq(ev.gameOver, LAMBDA r : r = "Enemies")

\* C11: in the enemy pass of a frame, taken in store order, an enemy damages the
\* player exactly when it overlaps the player and the player's hp is still > 0
\* at its turn; every such contact costs exactly 10 hp and leaves the enemy at
\* hp 0, so it is gone after the frame's cleanup and no enemy damages twice;
\* onGameOver("Enemies") is called once, in the frame whose contact brings hp
\* to <= 0, and enemies later in the pass deal nothing.
C11_ContactDamage ==
    FrameRan =>
        LET es == ev.combatEnemies
            hit(i) == es[i].id \in ContactIds
            hpBefore(i) == ev.hpAtSpawn - 10 * Cardinality({j \in 1..(i - 1) : hit(j)})
            near(i) == DistSq(player.x, player.y, es[i].x, es[i].y)
                           < (15 + es[i].radius) * (15 + es[i].radius)
        IN  /\ \A i \in 1..Len(es) :
                   /\ hit(i) <=> (hpBefore(i) > 0 /\ near(i))
                   /\ hit(i) => /\ es[i].hp = 0
                                /\ \A j \in 1..Len(enemies) : enemies[j].id # es[i].id
            /\ Cardinality(ContactIds) = Len(ev.contacts)
            /\ ContactIds \subseteq {es[i].id : i \in 1..Len(es)}
            /\ ev.hpAtPickup = ev.hpAtSpawn - 10 * Len(ev.contacts)
            /\ Len(EnemyGameOvers)
                   = (IF Len(ev.contacts) > 0 /\ ev.hpAtPickup <= 0 THEN 1 ELSE 0)

\* C11 witness: two enemies overlap the player in one enemy pass; the first
\* brings hp to <= 0 and the second deals nothing
C11_SecondEnemySpared ==
    /\ FrameRan
    /\ Len(ev.contacts) = 1
    /\ ev.hpAtPickup <= 0
    /\ \E i, j \in 1..Len(ev.combatEnemies) :
           /\ i < j
           /\ Overlaps(player, ev.combatEnemies[i])
           /\ Overlaps(player, ev.combatEnemies[j])
           /\ ev.combatEnemies[i].hp = 0
           /\ ev.combatEnemies[j].hp = 1

\* whether the entities of a collection have pairwise different ids
UniqueIds(seq) ==
    \A i, j \in 1..Len(seq) : seq[i].id = seq[j].id => i = j

\* C12: at every point of a match no two entities of one collection (enemies,
\* bullets, particles, health packs, walls, decorations) have the same id,
\* particles made by several createParticles calls of one frame included.
C12_IdsUnique ==
    /\ UniqueIds(enemies)
    /\ UniqueIds(bullets)
    /\ UniqueIds(particles)
    /\ UniqueIds(healthPacks)
    /\ UniqueIds(walls)
    /\ UniqueIds(decorations)

\* whether the box around a circle overlaps a wall's rectangle
BoxOverlapsWall(x, y, r, wall) ==
    /\ x + r > wall.x
    /\ x - r < wall.x + wall.width
    /\ y + r > wall.y
    /\ y - r < wall.y + wall.height

\* C13: right after initGame the bounding box of the player (radius 15)
\* overlaps no wall of the generated map, on either map and whatever the
\* samples drawn, the case where every sample is rejected included.
C13_SpawnSafe ==
    (ev.kind = "effect" /\ ev.initGame) =>
        \A i \in 1..Len(walls) : ~BoxOverlapsWall(player.x, player.y, 15, walls[i])

\* whether two wall rectangles overlap
RectsOverlap(a, b) ==
    /\ a.x < b.x + b.width
    /\ b.x < a.x + a.width
    /\ a.y < b.y + b.height
    /\ b.y < a.y + a.height

\* positions in the wall list of the scattered obstacles: after the 25 fixed
\* walls of Erindale Park; after the 18 fixed walls and before the 4 long
\* walls of Wasteland
ScatteredWalls ==
    IF currentMap = "Wasteland" THEN 19..(Len(walls) - 4) ELSE 26..Len(walls)

\* C14: on both maps the rectangle of every scattered obstacle in the layout
\* overlaps the rectangle of no wall that was in the layout before it.
C14_ScatterClear ==
    (ev.kind = "effect" /\ ev.initGame) =>
        \A k \in ScatteredWalls : \A j \in 1..(k - 1) : ~RectsOverlap(walls[j], walls[k])

\* the 'connected' events emitted since the latest connect()
ConnectedSinceConnect ==
    {i \in 1..Len(service.emitted) :
        /\ service.emitted[i].type = "connected"
        /\ service.emitted[i].conn = service.connects}

\* connect() was called and no 'connected' event has followed it yet
AwaitingConnected ==
    service.connects > 0 /\ ConnectedSinceConnect = {}

\* C15: once the socket has errored, the constructor has thrown or a safety
\* timeout has found the socket not open, the service is in mock mode and has
\* emitted 'connected' with mode 'mock' since the latest connect(); and every
\* connect() is eventually followed by a 'connected' event.
C15_ConnectEndsConnected ==
    /\ [](service.last \in {"error", "connectThrew", "timedOut"}
            => /\ service.isMockMode
               /\ \E i \in ConnectedSinceConnect : service.emitted[i].mode = "mock")
    /\ [](service.last = "timer"
            => \E i \in ConnectedSinceConnect :
                   service.emitted[i].mode \in {"mock", "online"})
    /\ (AwaitingConnected ~> ~AwaitingConnected)

\* C15 witness: a safety timeout found the socket still connecting and the
\* service fell back to mock mode
C15_TimedOutIntoMock ==
    /\ service.last = "timedOut"
    /\ service.isMockMode
    /\ \A i \in 1..Len(service.emitted) : service.emitted[i].mode # "online"

\* positions in the emitted log of the events that answer call c
AnswersTo(c) ==
    {i \in 1..Len(service.emitted) : service.emitted[i].call = c}

\* whether call c has been answered as a createRoom / joinRoom in mock mode
\* is to be: ROOM_JOINED as host and then, if a map was given, GAME_STARTED
\* with that map right after it; ROOM_JOINED as guest and nothing else
AnsweredRight(c) ==
    LET r == service.requests[c]
        a == AnswersTo(c)
        first == CHOOSE i \in a : \A j \in a : i <= j
        e == service.emitted
    IN  /\ a # {}
        /\ e[first].type = "ROOM_JOINED"
        /\ e[first].isHost = (r.type = "CREATE_ROOM")
        /\ IF r.type = "CREATE_ROOM" /\ r.mapName # ""
           THEN /\ a = {first, first + 1}
                /\ e[first + 1].type = "GAME_STARTED"
                /\ e[first + 1].theme = r.mapName
           ELSE a = {first}

\* C16: a createRoom or joinRoom made in mock mode is eventually answered, and
\* whatever has been emitted for it is the whole right answer (for a join no
\* GAME_STARTED); calls made outside mock mode get no mock answer.
C16_MockAnswers ==
    /\ [](\A c \in 1..Len(service.requests) :
              IF service.requests[c].mock
              THEN AnswersTo(c) # {} => AnsweredRight(c)
              ELSE AnswersTo(c) = {})
    /\ \A c \in 1..MaxRoomCalls :
           (c <= Len(service.requests) /\ service.requests[c].mock)
               ~> (c <= Len(service.requests) /\ AnsweredRight(c))

\* C16 witness: a createRoom with a map and a joinRoom, both made in mock
\* mode, have both been answered
C16_HostAndGuestAnswered ==
    /\ Len(service.requests) = 2
    /\ service.requests[1].type = "CREATE_ROOM"
    /\ service.requests[1].mapName = "Wasteland"
    /\ service.requests[2].type = "JOIN_ROOM"
    /\ service.requests[1].mock
    /\ service.requests[2].mock
    /\ AnswersTo(1) # {}
    /\ AnswersTo(2) # {}

\* C17: the promise of generateLevelConfig is never rejected; once it has
\* settled with the API key missing, the client or the request having thrown,
\* the response text empty or not parsable as JSON, it is fulfilled with the
\* default config ("Neon Basic", spawn rate 2000, player speed 4).
C17_NeverRejects ==
    probe.kind = "config" =>
        /\ probe.result.state \in {"pending", "fulfilled"}
        /\ (/\ probe.result.state = "fulfilled"
            /\ \/ probe.in.env # "key"
               \/ probe.in.ctorThrows
               \/ probe.in.request = "rejects"
               \/ probe.in.text \in {"", "{", "Sorry, I cannot"})
           => probe.result.value
                  = [themeName |-> "Neon Basic", enemySpawnRate |-> 2000, playerSpeed |-> 4]
        /\ (probe.in.env # "key" \/ probe.in.ctorThrows)
           => probe.result.state = "fulfilled"

\* C17 witness: with a key, the request resolved with text that is no JSON
\* and the call settled
C17_UnparsableAnswered ==
    /\ probe.kind = "config"
    /\ probe.in.env = "key"
    /\ ~probe.in.ctorThrows
    /\ probe.in.request = "resolves"
    /\ probe.in.text = "Sorry, I cannot"
    /\ probe.result.state # "pending"

\* C18: while the game state, as the component's effects see it, is neither
\* PLAYING nor SPECTATING no frame callback is pending (the effect's cleanup
\* cancelled it) and no step changes the entity store; a frame that runs its
\* update runs all of it, down to the request for the next frame.
C18_InactiveStateFreezesStore ==
    /\ [](gameState \notin {"PLAYING", "SPECTATING"} => rafQueue = {})
    /\ [][ (gameState \notin {"PLAYING", "SPECTATING"}
            /\ gameState' \notin {"PLAYING", "SPECTATING"})
           => UNCHANGED <<player, enemies, bullets, particles, healthPacks, walls,
                          decorations, scoreRef>> ]_vars
    /\ [](FrameRan => (requestRef \in rafQueue /\ ev.time = clock))

\* C18 witness: the state has left PLAYING or SPECTATING after frames ran, and
\* the pending callback is gone
C18_LeftActiveState ==
    /\ ev.kind = "effect"
    /\ ev.from \in {"PLAYING", "SPECTATING"}
    /\ ev.to \in {"MENU", "GAME_OVER"}
    /\ frames > 0
    /\ bullets # <<>>
    /\ rafQueue = {}

\* the side of the line through p and q on which r lies: 1, -1, or 0 on it
Side(p, q, r) ==
    Sgn((q.x - p.x) * (r.y - p.y) - (q.y - p.y) * (r.x - p.x))

\* C19: getIntersection returns a point exactly when ray and segment have
\* length, are not parallel, the segment's ends lie on opposite sides of (or
\* on) the ray's line (0 <= u <= 1) and the ray's end lies on or beyond the
\* segment's line while its start lies off it (0 < t <= 1); the point returned
\* lies on both, at parameter t of the ray, and param is t.
C19_IntersectionIffInRange ==
    probe.kind = "ray" =>
        LET a == probe.in.rayStart
            b == probe.in.rayEnd
            c == probe.in.segmentStart
            d == probe.in.segmentEnd
            o == probe.out
            expected ==
                /\ a # b
                /\ c # d
                /\ (b.x - a.x) * (d.y - c.y) # (b.y - a.y) * (d.x - c.x)
                /\ Side(a, b, c) * Side(a, b, d) <= 0
                /\ Side(c, d, a) # 0
                /\ Side(c, d, a) * Side(c, d, b) <= 0
        IN  /\ o.hit <=> expected
            /\ o.hit =>
                   /\ o.den > 0
                   /\ 0 < o.tn /\ o.tn <= o.den
                   /\ 0 <= o.un /\ o.un <= o.den
                   /\ o.xn = a.x * o.den + o.tn * (b.x - a.x)
                   /\ o.yn = a.y * o.den + o.tn * (b.y - a.y)
                   /\ o.xn = c.x * o.den + o.un * (d.x - c.x)
                   /\ o.yn = c.y * o.den + o.un * (d.y - c.y)

\* C19 witness: a ray that ends exactly on the segment's end (t = 1, u = 1)
\* returns that point
C19_RayEndsOnSegmentEnd ==
    /\ probe.kind = "ray"
    /\ probe.out.hit
    /\ probe.out.tn = probe.out.den
    /\ probe.out.un = probe.out.den
    /\ probe.in.rayStart = Pt(1, -1)

\* whether a bullet's circle reaches into a wall that is not low
TouchesSolidWall(b) ==
    \E i \in 1..Len(walls) :
        /\ ~walls[i].isLow
        /\ LET cx == IF b.x < walls[i].x THEN walls[i].x
                     ELSE IF b.x > walls[i].x + walls[i].width
                          THEN walls[i].x + walls[i].width ELSE b.x
               cy == IF b.y < walls[i].y THEN walls[i].y
                     ELSE IF b.y > walls[i].y + walls[i].height
                          THEN walls[i].y + walls[i].height ELSE b.y
           IN  (b.x - cx) * (b.x - cx) + (b.y - cy) * (b.y - cy) < b.radius * b.radius

\* the bullets of the frame after their move, before the filter
MovedBullets ==
    [i \in 1..Len(ev.bulletsShot) |->
        [ev.bulletsShot[i] EXCEPT !.x = @ + ev.bulletsShot[i].vx,
                                  !.y = @ + ev.bulletsShot[i].vy]]

\* squared distance of a moved bullet from the camera focus of the frame
CamDistSq(b) ==
    (b.x - ev.cameraPos.x) * (b.x - ev.cameraPos.x)
    + (b.y - ev.cameraPos.y) * (b.y - ev.cameraPos.y)

KeptByUpdate(b) ==
    \E k \in 1..Len(ev.combatBullets) :
        /\ ev.combatBullets[k].id = b.id
        /\ ev.combatBullets[k].x = b.x
        /\ ev.combatBullets[k].y = b.y

\* C20 (as amended): a bullet that touches no non-low wall is in the store at
\* the end of the bullet update exactly when its distance from the camera
\* focus is less than 1.5 times the longer side of the canvas (the canvas is
\* 70 by 70 here: less than 105), and is removed from that distance on.
C20_KeptWithinLongerSide ==
    FrameRan =>
        \A i \in 1..Len(MovedBullets) :
            ~TouchesSolidWall(MovedBullets[i]) =>
                (KeptByUpdate(MovedBullets[i]) <=> CamDistSq(MovedBullets[i]) < 105 * 105)

\* C20 witness: of the bullets clear of every wall, one is removed at a
\* distance of exactly 105 while another, nearer one is kept
C20_RemovedForDistance ==
    /\ FrameRan
    /\ \E i \in 1..Len(MovedBullets) :
           /\ ~TouchesSolidWall(MovedBullets[i])
           /\ ~KeptByUpdate(MovedBullets[i])
           /\ CamDistSq(MovedBullets[i]) = 105 * 105
    /\ \E i \in 1..Len(MovedBullets) :
           /\ ~TouchesSolidWall(MovedBullets[i])
           /\ KeptByUpdate(MovedBullets[i])

\* C20 as stated: kept exactly while the distance does not exceed 1.5 times
\* the viewport's diagonal (4 d^2 <= 9 (w^2 + h^2)).
C20_KeptWithinDiagonal ==
    FrameRan =>
        \A i \in 1..Len(MovedBullets) :
            ~TouchesSolidWall(MovedBullets[i]) =>
                (KeptByUpdate(MovedBullets[i])
                    <=> 4 * CamDistSq(MovedBullets[i]) <= 9 * (70 * 70 + 70 * 70))

\* C21: a frame in which a sound call throws still completes its steps and
\* requests the next frame.
C21_AudioFailureContained ==
    ev.kind = "thrown" => requestRef \in rafQueue

\* C22: findSafeSpawnPosition looks at no more than the first 50 samples, each
\* within 100 of the map's half-extent on both axes (700 by 900 on Wasteland,
\* 1100 by 1100 on Erindale Park); it returns the first of them whose box of
\* radius 20 overlaps no wall, and the origin when all 50 overlap one; with no
\* walls it returns the first sample.
C22_FirstSafeOfFifty ==
    probe.kind = "spawn" =>
        LET n == IF Len(probe.samples) < 50 THEN Len(probe.samples) ELSE 50
            safe(i) == \A k \in 1..Len(probe.walls) :
                           ~BoxOverlapsWall(probe.samples[i].x, probe.samples[i].y, 20,
                                            probe.walls[k])
            limX == IF currentMap = "Wasteland" THEN 700 ELSE 1100
            limY == IF currentMap = "Wasteland" THEN 900 ELSE 1100
        IN  /\ \A i \in 1..Len(probe.samples) :
                   /\ 0 - limX <= probe.samples[i].x /\ probe.samples[i].x <= limX
                   /\ 0 - limY <= probe.samples[i].y /\ probe.samples[i].y <= limY
            /\ \A i \in 1..n :
                   (safe(i) /\ \A j \in 1..(i - 1) : ~safe(j))
                       => probe.out = [x |-> probe.samples[i].x, y |-> probe.samples[i].y]
            /\ (\A i \in 1..n : ~safe(i)) => probe.out = [x |-> 0, y |-> 0]
            /\ probe.walls = <<>>
                   => probe.out = [x |-> probe.samples[1].x, y |-> probe.samples[1].y]

\* C22 witness: 50 samples in a wall, a free 51st, and the origin returned
C22_FiftyRejected ==
    /\ probe.kind = "spawn"
    /\ Len(probe.samples) = 51
    /\ probe.walls # <<>>
    /\ currentMap = "Wasteland"
    /\ \E k \in 1..Len(probe.walls) :
           BoxOverlapsWall(probe.samples[50].x, probe.samples[50].y, 20, probe.walls[k])
    /\ \A k \in 1..Len(probe.walls) :
           ~BoxOverlapsWall(probe.samples[51].x, probe.samples[51].y, 20, probe.walls[k])
    /\ probe.out = [x |-> 0, y |-> 0]

\* C23: a frame subtracts cactus damage only when the player, alive and in
\* state PLAYING, collided with a cactus; it then subtracts exactly 2 hp, more
\* than 1000 ms of frame time after the previous subtraction of the match, and
\* onGameOver("Cactus") is called in exactly the frames whose subtraction
\* leaves hp <= 0.
C23_CactusDamage ==
    /\ [](FrameRan =>
            /\ ev.cactusDamage => (ev.hitCactus /\ ev.hpStart > 0 /\ ev.gs = "PLAYING")
            /\ ev.hpAtRoundCheck = ev.hpStart - (IF ev.cactusDamage THEN 2 ELSE 0)
            /\ (\E i \in 1..Len(ev.gameOver) : ev.gameOver[i] = "Cactus")
                   <=> (ev.cactusDamage /\ ev.hpAtRoundCheck <= 0))
    /\ [][ (ev'.kind = "frame" /\ ev'.ran /\ ev'.time = clock' /\ clock' # clock)
             => IF ev'.cactusDamage
                THEN /\ clock' - lastCactusDamageTimeRef > 1000
                     /\ lastCactusDamageTimeRef' = clock'
                ELSE lastCactusDamageTimeRef' = lastCactusDamageTimeRef ]_vars

\* C23 witness: the player touches a cactus within the cooldown and loses
\* nothing to it, having lost to it before
C23_TouchWithinCooldown ==
    /\ FrameRan
    /\ ev.hitCactus
    /\ ~ev.cactusDamage
    /\ ev.hpStart > 0
    /\ lastCactusDamageTimeRef > 0
    /\ clock - lastCactusDamageTimeRef = 1000

\* C24: in a frame no enemy is reported killed (its value added to the score,
\* onKill called) more than once, however many bullets overlap it and whether
\* or not a contact with the player already set its hp to 0; enemies leave
\* the store at the frame's cleanup, so this is once per match.
C24_EachEnemyScoresOnce ==
    FrameRan =>
        /\ \A k, m \in 1..Len(ev.kills) : ev.kills[k] = ev.kills[m] => k = m
        /\ scoreRef - ev.scoreBefore <= 10 * Cardinality({ev.kills[k] : k \in 1..Len(ev.kills)})
        /\ \A i \in 1..Len(enemies) : enemies[i].hp > 0

\* C25: initGame leaves the internal score counter at 0, so that the score
\* reported through setScore during a match is the sum of the values of the
\* enemies killed in that match.
C25_ScoreStartsAtZero ==
    (ev.kind = "effect" /\ ev.initGame) => scoreRef = 0

\* C26: whenever the service is in mock mode it counts as connected: no
\* socket event after the switch, the close event of the socket that
\* enableMockMode closed included, sets isConnected back to false.
C26_MockModeStaysConnected ==
    service.isMockMode => service.isConnected

\* C27: events of an earlier connect() leave the latest attempt alone: while
\* the latest socket is open the service stays connected (no close event of
\* an older socket clears isConnected), and no safety timeout switches the
\* service to mock mode while the timeout of a later connect() is pending.
C27_EarlierAttemptIsolated ==
    /\ (service.ws # 0 /\ service.sockets[service.ws] = "OPEN") => service.isConnected
    /\ ~(service.last = "timedOut" /\ service.timers > 0)

\* C28: a frame reports game over at most once and then ends with the hp
\* that made it do so (nothing heals the player later in that frame), and a
\* frame that starts with the player's hp <= 0 leaves the player's hp,
\* position and ammo as they were, fires no bullet and reports no game over:
\* until initGame, onGameOver is invoked once per match.
C28_DeadPlayerFrozen ==
    /\ [](FrameRan => /\ Len(ev.gameOver) <= 1
                      /\ ev.gameOver # <<>> => (player.hp <= 0 /\ ev.picked = {}))
    /\ [][ (player.hp <= 0 /\ ev'.kind = "frame" /\ clock' # clock)
             => /\ player'.hp = player.hp
                /\ player'.x = player.x
                /\ player'.y = player.y
                /\ player'.ammo = player.ammo
                /\ shotsFired' = shotsFired
                /\ ev'.ran => (ev'.gameOver = <<>> /\ ev'.contacts = <<>>
                               /\ ev'.picked = {} /\ ev'.fired = 0) ]_vars

\* C28 witness: a frame found the player dead with the mouse held, ammo left
\* and a health pack within reach
C28_DeadPlayerTempted ==
    /\ FrameRan
    /\ ev.hpStart <= 0
    /\ ev.mouseDown
    /\ player.ammo > 0
    /\ \E i \in 1..Len(healthPacks) :
           (player.x - healthPacks[i].x) * (player.x - healthPacks[i].x)
           + (player.y - healthPacks[i].y) * (player.y - healthPacks[i].y)
             < (15 + healthPacks[i].radius) * (15 + healthPacks[i].radius)

\* C29: whatever the game-state changes and re-renders, at most one frame
\* callback is outstanding, and it is the one requestRef names.
C29_OneCallbackOutstanding ==
    /\ Cardinality(rafQueue) <= 1
    /\ rafQueue # {} => rafQueue = {requestRef}

\* C29 witness: the effect ran again (PLAYING or SPECTATING on both sides)
\* after frames had run, and one callback is outstanding
C29_EffectRanAgainWhileLooping ==
    /\ ev.kind = "effect"
    /\ ev.from \in {"PLAYING", "SPECTATING"}
    /\ ev.to \in {"PLAYING", "SPECTATING"}
    /\ frames > 1
    /\ rafQueue = {requestRef}
    /\ requestRef > 2

\* C30: the change from PLAYING to SPECTATING leaves the entity store as it
\* was (player, enemies, bullets, particles, health packs, walls and
\* decorations), while every entry into PLAYING (the canvas being mounted, as
\* it is whenever the effect runs) leaves the player at hp 100 with 120
\* rounds and no enemies, bullets, particles or health packs.
C30_SpectatingKeepsPlayingResets ==
    /\ [][ (gameState = "PLAYING" /\ gameState' = "SPECTATING")
             => UNCHANGED <<player, enemies, bullets, particles, healthPacks, walls,
                            decorations>> ]_vars
    /\ []((ev.kind = "effect" /\ ev.to = "PLAYING" /\ ev.initGame)
             => /\ player.hp = 100
                /\ player.ammo = 120
                /\ enemies = <<>>
                /\ bullets = <<>>
                /\ particles = <<>>
                /\ healthPacks = <<>>)

\* C30 witness: PLAYING was entered again from SPECTATING after a match in
\* which the player fired
C30_ReenteredPlaying ==
    /\ ev.kind = "effect"
    /\ ev.from = "SPECTATING"
    /\ ev.to = "PLAYING"
    /\ ev.initGame
    /\ frames > 1
    /\ lastShotTimeRef > 0

====
